---- MODULE Spec2Model ----
(***************************************************************************)
(* Model of DrahtBot's conflict detector (scripts/conflicts.py), of the    *)
(* metadata-comment synchronizer and of the pull inventory                 *)
(* (scripts/util/util.py).                                                 *)
(*                                                                         *)
(* Text is a sequence of tokens.  The tokens '<!--' and '-->' are the      *)
(* delimiters the code splits on; every other token stands for a run of    *)
(* characters that contains neither.  No token is a prefix of another, so  *)
(* prefix tests and lexicographic comparison on token sequences agree      *)
(* with the same operations on the characters.                             *)
(***************************************************************************)
EXTENDS Integers, Sequences, FiniteSets, TLC

\* ------------------------------------------------------------------ bounds
MaxTitleParts == 2
MaxBodyLen == 20
MaxEvents == 1
MaxFailures == 2

\* ------------------------------------------------------- text primitives
OPEN == "<!--"
CLOSE == "-->"

\* Tokens in ascending order of their characters (code points).
TokOrder ==
  << "\t", "\n\n### Coverage 1", "\n\n### Coverage 2",
     "\n\nIf you consider", "\n\nThe following sections",
     "\n### Conflicts\n", "\n* [#10](url10) (", "\n* [#20](url20) (", "\n* [#30](url30) (",
     "\n(octopus) This pull request conflicts with the target branch",
     " by u)", "-->", "174a", "2502", "<!--", "No conflicts as of last run.",
     "Reviewers, this pull request conflicts", "a", "cf90", "e57a" >>

Tokens == {TokOrder[i] : i \in 1..Len(TokOrder)}

Rank == [t \in Tokens |-> CHOOSE i \in 1..Len(TokOrder) : TokOrder[i] = t]

\* str.startswith
StartsWith(s, prefix) ==
  /\ Len(s) >= Len(prefix)
  /\ SubSeq(s, 1, Len(prefix)) = prefix

\* a < b for str (lexicographic)
RECURSIVE StrLess(_, _)
StrLess(a, b) ==
  IF b = << >> THEN FALSE
  ELSE IF a = << >> THEN TRUE
  ELSE IF Head(a) = Head(b) THEN StrLess(Tail(a), Tail(b))
  ELSE Rank[Head(a)] < Rank[Head(b)]

\* s.split(sep): the parts between the occurrences of the token sep
RECURSIVE Split(_, _)
Split(s, sep) ==
  IF \A i \in 1..Len(s) : s[i] # sep THEN << s >>
  ELSE LET k == CHOOSE i \in 1..Len(s) :
                  /\ s[i] = sep
                  /\ \A j \in 1..(i - 1) : s[j] # sep
       IN << SubSeq(s, 1, k - 1) >> \o Split(SubSeq(s, k + 1, Len(s)), sep)

\* s.split(sep, 1)[1]: what follows the first occurrence of sep
AfterFirst(s, sep) ==
  LET k == CHOOSE i \in 1..Len(s) :
             /\ s[i] = sep
             /\ \A j \in 1..(i - 1) : s[j] # sep
  IN SubSeq(s, k + 1, Len(s))

\* ''.join(list)
RECURSIVE Join(_)
Join(l) == IF l = << >> THEN << >> ELSE Head(l) \o Join(Tail(l))

RECURSIVE Insert(_, _)
Insert(x, l) ==
  IF l = << >> THEN << x >>
  ELSE IF StrLess(x, Head(l)) THEN << x >> \o l
  ELSE << Head(l) >> \o Insert(x, Tail(l))

\* sorted(list of str)
RECURSIVE sorted(_)
sorted(l) ==
  IF l = << >> THEN << >>
  ELSE Insert(l[Len(l)], sorted(SubSeq(l, 1, Len(l) - 1)))

IsWhite(t) == t = "\t"

\* str.strip
RECURSIVE strip(_)
strip(s) ==
  IF s = << >> THEN s
  ELSE IF IsWhite(Head(s)) THEN strip(Tail(s))
  ELSE IF IsWhite(s[Len(s)]) THEN strip(SubSeq(s, 1, Len(s) - 1))
  ELSE s

\* ------------------------------------------------------------- IdComment
NEEDS_REBASE == << OPEN, "cf90", CLOSE >>
METADATA == << OPEN, "e57a", CLOSE >>
SEC_CONFLICTS == << OPEN, "174a", CLOSE >>
SEC_COVERAGE == << OPEN, "2502", CLOSE >>
ID_CONFLICTS_SEC == SEC_CONFLICTS

BOT == "DrahtBot"
None == << "None" >>

\* ---------------------------------------------------- scripts/util/util.py
\* get_metadata_comment without sorted(): sections in the order of arrival.
get_metadata_comment_unsorted(sections) ==
  METADATA \o << "\n\nThe following sections" >> \o Join(sections)

get_metadata_comment(sections) ==
  METADATA \o << "\n\nThe following sections" >> \o Join(sorted(sections))

\* get_metadata_sections looking at the comments of the bot only.
get_metadata_sections_own(thread) ==
  LET found == {i \in 1..Len(thread) :
                  thread[i].user = BOT /\ StartsWith(thread[i].body, METADATA)}
  IN IF found = {} THEN [c |-> 0, sections |-> << >>]
     ELSE LET c == CHOOSE i \in found : \A j \in found : i <= j
              parts == Split(thread[c].body, OPEN)
          IN [c |-> c,
              sections |-> [k \in 1..(Len(parts) - 2) |-> << OPEN >> \o parts[k + 2]]]

\* The first issue comment that starts with the METADATA marker and its
\* sections; c = 0 stands for (None, None).
get_metadata_sections(thread) ==
  LET found == {i \in 1..Len(thread) : StartsWith(thread[i].body, METADATA)}
  IN IF found = {} THEN [c |-> 0, sections |-> << >>]
     ELSE LET c == CHOOSE i \in found : \A j \in found : i <= j
              parts == Split(thread[c].body, OPEN)
          IN [c |-> c,
              sections |-> [k \in 1..(Len(parts) - 2) |-> << OPEN >> \o parts[k + 2]]]

\* update_metadata_comment with the new section posted as a comment of its
\* own instead of being added to the existing one.
update_metadata_comment_new_comment(thread, section_id, text) ==
  LET r == get_metadata_sections(thread)
      sections == r.sections
      hit == {i \in 1..Len(sections) : StartsWith(sections[i], section_id)}
  IN IF r.c # 0 /\ hit # {}
     THEN LET i == CHOOSE k \in hit : \A j \in hit : k <= j
          IN IF AfterFirst(sections[i], CLOSE) = text
             THEN [kind |-> "none", c |-> r.c, body |-> << >>]
             ELSE [kind |-> "edit", c |-> r.c,
                   body |-> get_metadata_comment(
                              [sections EXCEPT ![i] = section_id \o text])]
     ELSE [kind |-> "create", c |-> 0,
           body |-> get_metadata_comment(<< section_id \o text >>)]

\* The remote call update_metadata_comment decides on: kind is "none"
\* (section up to date), "edit" (c.edit(body)) or "create"
\* (pull.create_issue_comment(body)).
update_metadata_comment(thread, section_id, text) ==
  LET r == get_metadata_sections(thread)
      sections == r.sections
      hit == {i \in 1..Len(sections) : StartsWith(sections[i], section_id)}
  IN IF r.c # 0
     THEN IF hit # {}
          THEN LET i == CHOOSE k \in hit : \A j \in hit : k <= j
               IN IF AfterFirst(sections[i], CLOSE) = text
                  THEN [kind |-> "none", c |-> r.c, body |-> << >>]
                  ELSE [kind |-> "edit", c |-> r.c,
                        body |-> get_metadata_comment(
                                   [sections EXCEPT ![i] = section_id \o text])]
          ELSE [kind |-> "edit", c |-> r.c,
                body |-> get_metadata_comment(
                           Append(sections, section_id \o text))]
     ELSE [kind |-> "create", c |-> 0,
           body |-> get_metadata_comment(<< section_id \o text >>)]

\* The section's text, or None.
get_section_text(thread, section_id) ==
  LET sections == get_metadata_sections(thread).sections
      hit == {i \in 1..Len(sections) : StartsWith(sections[i], section_id)}
  IN IF hit = {} THEN None
     ELSE AfterFirst(sections[CHOOSE k \in hit : \A j \in hit : k <= j], CLOSE)

\* ------------------------------------------------- scripts/conflicts.py
\* "\n* [#{id}]({html_url}) ({title.strip()} by {login})" of one pull
ConflictLine(p) ==
  << CASE p.num = 10 -> "\n* [#10](url10) ("
       [] p.num = 20 -> "\n* [#20](url20) ("
       [] p.num = 30 -> "\n* [#30](url30) (" >>
    \o strip(p.title) \o << " by u)" >>

NoConflictsText == << "\n### Conflicts\n", "No conflicts as of last run." >>

ConflictsText(pulls_conflict) ==
  << "\n### Conflicts\n", "Reviewers, this pull request conflicts" >>
    \o Join([k \in 1..Len(pulls_conflict) |-> ConflictLine(pulls_conflict[k])])
    \o << "\n\nIf you consider" >>

\* update_comment as in the older src/conflicts.py: nothing is done for an
\* empty list.
update_comment_legacy(thread, pulls_conflict) ==
  IF pulls_conflict = << >> THEN [kind |-> "none", c |-> 0, body |-> << >>]
  ELSE update_metadata_comment(thread, ID_CONFLICTS_SEC,
                               ConflictsText(pulls_conflict))

\* update_comment without the test for an existing section.
update_comment_always(thread, pulls_conflict) ==
  update_metadata_comment(thread, ID_CONFLICTS_SEC,
                          IF pulls_conflict = << >> THEN NoConflictsText
                          ELSE ConflictsText(pulls_conflict))

\* The remote call update_comment decides on for a pull with this thread.
update_comment(thread, pulls_conflict) ==
  IF pulls_conflict = << >>
  THEN IF get_section_text(thread, ID_CONFLICTS_SEC) \in {None, << >>}
       THEN [kind |-> "none", c |-> 0, body |-> << >>]
       ELSE update_metadata_comment(thread, ID_CONFLICTS_SEC, NoConflictsText)
  ELSE update_metadata_comment(thread, ID_CONFLICTS_SEC,
                               ConflictsText(pulls_conflict))

\* The thread after the remote call w (c.edit / create_issue_comment).
ApplyWrite(thread, w, dry_run) ==
  IF dry_run \/ w.kind = "none" THEN thread
  ELSE IF w.kind = "edit" THEN [thread EXCEPT ![w.c].body = w.body]
  ELSE Append(thread, [user |-> BOT, body |-> w.body])

\* ------------------------------------------------------------------ state
Pulls == {10, 20, 30}

VARIABLES
  comments,   \* forge: pull number -> issue comments, oldest first
  last,       \* the latest synchronizer call: arguments, what the thread
              \* held before it, and the remote write it made
  gh,         \* forge: pull number -> [state, mergeable, merged, slug, draft,
              \* title]
  fails,      \* repository: <<c, o>> -> does merging the head of o onto
              \* merge_base(c) fail ("?" until a merge first shows it)
  base_fails, \* repository: c -> does merging the head of c onto the tip of
              \* the target branch fail ("?" until a merge first shows it)
  args,       \* main: the command line of the current run
  pc,         \* main: position of the current run
  mono,       \* main: mono_pulls_mergeable (= pulls_mergeable), pull numbers
  merge_id,   \* calc_merged: pull -> CON_merge_id (a commit) or NoCommit
  HEAD,       \* work tree: the checked-out commit
  merging,    \* work tree: a merge is in progress (MERGE_HEAD exists)
  idx,        \* main / calc_merged: position in mono of the pull at hand
  other,      \* calc_conflicts: position in mono of pull_other
  conflicts,  \* calc_conflicts: the list built so far, pull numbers
  run,        \* what the current run did: conflict lists, writes, exception
  events,     \* forge: number of pushes, closes and failed calls so far
  ipc,        \* return_with_pull_metadata: position
  pulls,      \* return_with_pull_metadata: the list `pulls` of pull objects
  pos,        \* return_with_pull_metadata: position in pulls of the object
              \* whose attributes are being read
  labels,     \* forge: pull number -> the pull carries the label 'Needs rebase'
  lpc,        \* label_rebase main: position
  lpos,       \* label_rebase main: position in pulls of the pull at hand
  printed,    \* label_rebase main: the writes the run has printed
  intended,   \* label_rebase main: the writes of the run's `if not
              \* args.dry_run` blocks, made or not
  tree,       \* conflicts.py (long-lived scratch tree): the tracked file at
              \* the tip of origin's base branch, at HEAD, in the index
              \* and in the working tree
  legacy      \* conflicts.py main: position, and what the run has done

syncVars == << comments, last >>
runVars == << gh, fails, base_fails, args, pc, mono, merge_id, HEAD, merging,
              idx, other, conflicts, run, events >>
invVars == << ipc, pulls, pos >>
labelVars == << labels, lpc, lpos, printed, intended >>
legacyVars == << tree, legacy >>
vars == << comments, last, gh, fails, base_fails, args, pc, mono, merge_id,
           HEAD, merging, idx, other, conflicts, run, events, ipc, pulls, pos,
           labels, lpc, lpos, printed, intended, tree, legacy >>

NoCall ==
  [op |-> "none", arg |-> << >>, dry_run |-> FALSE, kind |-> "none",
   pre_conflicts |-> None, pre_coverage |-> None, pre_len |-> 0,
   again |-> "n/a"]

\* ----------------------------------------------------------------- inputs
\* Pull titles: any text without a line break, here built from these parts
\* (a title may quote an HTML comment).
TitleParts == {<< "a" >>, << "\t" >>, << OPEN >>, SEC_COVERAGE}

RECURSIVE SeqsUpTo(_, _)
SeqsUpTo(S, n) ==
  IF n = 0 THEN {<< >>}
  ELSE LET shorter == SeqsUpTo(S, n - 1)
       IN shorter \cup {Append(q, x) : q \in shorter, x \in S}

Titles == {Join(q) : q \in SeqsUpTo(TitleParts, MaxTitleParts)}

\* The pull whose thread the synchronizer calls are made on.
SyncPull == 10

\* Conflict lists handed to update_comment.
ConflictLists ==
  {<< >>} \cup {<< [num |-> 20, title |-> t] >> : t \in Titles}

\* Coverage section bodies (a table of numbers and links).
CoverageTexts == {<< "\n\n### Coverage 1" >>, << "\n\n### Coverage 2" >>}

\* ------------------------------------------------ synchronizer operations
\* A commit is the set of pull heads merged into the tip of the target
\* branch; {} is the tip itself.
NoCommit == {0}

Pairs == {q \in Pulls \X Pulls : q[1] # q[2]}

NoArgs ==
  [update_comments |-> FALSE, pull_id |-> 0, dry_run |-> FALSE,
   github_repos |-> << "a" >>]

\* calc_conflicts has not returned a list for the pull
NoList == << 0 >>

\* The run is not the retry of a run that a failed forge call ended.
NoRetry == [p \in Pulls |-> "n/a"]

NoRun ==
  [lists |-> [p \in Pulls |-> NoList], writes |-> [p \in Pulls |-> "n/a"],
   had |-> [p \in Pulls |-> None], exc |-> "none",
   start |-> [p \in Pulls |-> << >>], retry_of |-> NoRetry]

\* Every pull is open and merges into the target branch; all are pulls of
\* the repo "a".
OpenMergeable ==
  [p \in Pulls |->
     [state |-> "open", mergeable |-> "True", merged |-> FALSE, slug |-> "a",
      draft |-> FALSE, title |-> << "a" >>]]

\* The same with pull 30 a pull of the repo "b".
TwoRepos == [OpenMergeable EXCEPT ![30].slug = "b"]

\* The scratch tree as a clone leaves it: the one tracked file holds the same
\* at origin's base branch, at HEAD, in the index and in the working tree.
CleanTree == [origin |-> "old", head |-> "old", index |-> "old", work |-> "old"]

\* conflicts.py has not been started.
NoLegacy ==
  [pc |-> "idle", dirty |-> FALSE, fetched |-> FALSE, merges |-> 0,
   writes |-> 0, at |-> 0]

\* No run of main has started; a is its command line.
InitMain(a) ==
  /\ fails = [q \in Pairs |-> "?"]
  /\ base_fails = [p \in Pulls |-> "?"]
  /\ args = a
  /\ pc = "idle"
  /\ mono = << >>
  /\ merge_id = [p \in Pulls |-> NoCommit]
  /\ HEAD = {}
  /\ merging = FALSE
  /\ idx = 0
  /\ other = 0
  /\ conflicts = << >>
  /\ run = NoRun
  /\ events = 0
  /\ ipc = "idle"
  /\ pulls = << >>
  /\ pos = 0
  /\ labels = [p \in Pulls |-> FALSE]
  /\ lpc = "idle"
  /\ lpos = 0
  /\ printed = << >>
  /\ intended = << >>
  /\ tree = CleanTree
  /\ legacy = NoLegacy

\* A comment a reviewer left on the pull.
ReviewComment == [user |-> "u", body |-> << "a" >>]

InitSync ==
  /\ comments = [p \in Pulls |-> IF p = SyncPull THEN << ReviewComment >> ELSE << >>]
  /\ last = NoCall
  /\ gh = OpenMergeable
  /\ InitMain(NoArgs)

\* What a thread holds before a synchronizer call.
Before(thread) ==
  [conflicts |-> get_section_text(thread, SEC_CONFLICTS),
   coverage |-> get_section_text(thread, SEC_COVERAGE),
   len |-> Len(thread)]

\* What is recorded about a call that decided on the remote write w.
Called(op, arg, dry_run, pre, w) ==
  [op |-> op, arg |-> arg, dry_run |-> dry_run, kind |-> w.kind,
   pre_conflicts |-> pre.conflicts,
   pre_coverage |-> pre.coverage,
   pre_len |-> pre.len,
   again |-> IF /\ last.op = op
                /\ last.arg = arg
                /\ ~last.dry_run
                /\ ~dry_run
             THEN last.kind ELSE "n/a"]

\* scripts/conflicts.py update_comment(dry_run, pull, pulls_conflict)
SyncConflicts ==
  LET thread == comments[SyncPull]
  IN \E pre \in { Before(thread) } :
     \E pulls_conflict \in ConflictLists :
     \E w \in { update_comment(thread, pulls_conflict) } :
       /\ Len(w.body) <= MaxBodyLen
       /\ \E dry_run \in BOOLEAN :
            /\ comments' = [comments EXCEPT ![SyncPull] = ApplyWrite(thread, w, dry_run)]
            /\ last' = Called("conflicts", pulls_conflict, dry_run, pre, w)
       /\ UNCHANGED << runVars, invVars, labelVars, legacyVars >>

\* scripts/coverage.py calc_coverage: update_metadata_comment(pull, ID_COVERAGE_SEC, ...)
SyncCoverage ==
  LET thread == comments[SyncPull]
  IN \E pre \in { Before(thread) } :
     \E text \in CoverageTexts :
     \E w \in { update_metadata_comment(thread, SEC_COVERAGE, text) } :
       /\ Len(w.body) <= MaxBodyLen
       /\ \E dry_run \in BOOLEAN :
            /\ comments' = [comments EXCEPT ![SyncPull] = ApplyWrite(thread, w, dry_run)]
            /\ last' = Called("coverage", text, dry_run, pre, w)
       /\ UNCHANGED << runVars, invVars, labelVars, legacyVars >>

NextSync ==
  \/ SyncConflicts
  \/ SyncCoverage

Spec == InitSync /\ [][NextSync]_vars

\* ------------------------------------------- scripts/conflicts.py main
\* The title the forge reports for a pull in a run of main.
PullTitle(p) == gh[p].title

PullRec(p) == [num |-> p, title |-> PullTitle(p)]

\* github_repo.get_pulls(state="open", base=base_name): newest first
RECURSIVE Descending(_)
Descending(S) ==
  IF S = {} THEN << >>
  ELSE LET top == CHOOSE x \in S : \A y \in S : y <= x
       IN << top >> \o Descending(S \ {top})

get_pulls == Descending({p \in Pulls : gh[p].state = "open"})

\* The list without the filter: every open pull goes on.
Mergeable_all(l) == l

\* pulls_mergeable = [p for p in pulls if p.mergeable]
Mergeable(l) == SelectSeq(l, LAMBDA p : gh[p].mergeable = "True")

\* The same call on the repo of one slug of --github_repos.
repo_get_pulls(slug) ==
  Descending({p \in Pulls : gh[p].state = "open" /\ gh[p].slug = slug})

\* pull_blobs: for each slug its open mergeable pulls
pull_blobs(repos) ==
  [k \in 1..Len(repos) |->
     Mergeable(repo_get_pulls(repos[k]))]

\* mono_pulls_mergeable: extend(ps) stands after the loop over the slugs,
\* where ps is the list of the last slug.
mono_pulls_mergeable(repos) == pull_blobs(repos)[Len(repos)]

Terminated == pc \in {"idle", "done", "crashed", "exit"}

ArgSets ==
  [update_comments : BOOLEAN, pull_id : {0} \cup Pulls, dry_run : BOOLEAN,
   github_repos : {<< "a" >>, << "a", "b" >>}]

\* git merge of the head of pull x onto the checked-out commit: every way
\* the repository can answer, with what is then known about it.  Merging
\* onto a commit that holds several pull heads fails when it fails for one
\* of them.
MergeOutcomes(x) ==
  IF x \in HEAD
  THEN {[fails |-> fails, base_fails |-> base_fails, failed |-> FALSE]}
  ELSE IF HEAD = {}
  THEN {[fails |-> fails,
         base_fails |-> [base_fails EXCEPT ![x] = v],
         failed |-> (v = "yes")] :
          v \in IF base_fails[x] = "?" THEN {"yes", "no"} ELSE {base_fails[x]}}
  ELSE LET new == {m \in HEAD : fails[<< m, x >>] = "?"}
       IN {LET f == [q \in Pairs |->
                       IF q[2] = x /\ q[1] \in new THEN v[q[1]] ELSE fails[q]]
           IN [fails |-> f, base_fails |-> base_fails,
               failed |-> (\E m \in HEAD : f[<< m, x >>] = "yes")] :
             v \in [new -> {"yes", "no"}]}

\* main, lines 157-190: inventory, fetch, fresh copy of the repository
StartRun ==
  /\ Terminated
  /\ mono' = mono_pulls_mergeable(args.github_repos)
  /\ merge_id' = [p \in Pulls |-> NoCommit]
  /\ HEAD' = {}
  /\ merging' = FALSE
  /\ idx' = 1
  /\ other' = 0
  /\ conflicts' = << >>
  /\ LET retry == pc = "crashed" /\ run.exc = "forge"
     IN run' = [NoRun EXCEPT
                  !.had = [p \in Pulls |->
                             get_section_text(comments[p], ID_CONFLICTS_SEC)],
                  !.start = IF retry THEN run.start ELSE comments,
                  !.retry_of = IF retry
                               THEN [p \in Pulls |->
                                       IF run.writes[p] = "n/a"
                                       THEN run.retry_of[p] ELSE run.writes[p]]
                               ELSE NoRetry]
  /\ pc' = "calc_merged"
  /\ UNCHANGED << legacyVars, labelVars, invVars, events, comments, last, gh, fails, base_fails, args >>

\* calc_merged: git checkout base_id
CalcMergedCheckout ==
  /\ pc = "calc_merged"
  /\ idx <= Len(mono)
  /\ HEAD' = {}
  /\ pc' = "cm_merge"
  /\ UNCHANGED << legacyVars, labelVars, invVars, events, comments, last, gh, fails, base_fails, args, mono, merge_id,
                  merging, idx, other, conflicts, run >>

\* calc_merged: git merge p.CON_commit; p.CON_merge_id = HEAD.  A failed
\* merge raises CalledProcessError, which nothing catches.
CalcMergedMerge ==
  /\ pc = "cm_merge"
  /\ \E o \in MergeOutcomes(mono[idx]) :
       /\ fails' = o.fails
       /\ base_fails' = o.base_fails
       /\ IF o.failed
          THEN /\ merging' = TRUE
               /\ run' = [run EXCEPT !.exc = "calc_merged"]
               /\ pc' = "raise"
               /\ UNCHANGED << HEAD, merge_id, idx >>
          ELSE /\ HEAD' = HEAD \cup {mono[idx]}
               /\ merge_id' = [merge_id EXCEPT ![mono[idx]] = HEAD']
               /\ idx' = idx + 1
               /\ pc' = "calc_merged"
               /\ UNCHANGED << merging, run >>
  /\ UNCHANGED << legacyVars, labelVars, invVars, events, comments, last, gh, args, mono, other, conflicts >>

\* calc_merged returns; main goes on to whatever the command line asks for
CalcMergedReturn ==
  /\ pc = "calc_merged"
  /\ idx > Len(mono)
  /\ idx' = 1
  /\ pc' = IF args.update_comments THEN "update_all"
           ELSE IF args.pull_id # 0 THEN "pull_id" ELSE "return"
  /\ UNCHANGED << legacyVars, labelVars, invVars, events, comments, last, gh, fails, base_fails, args, mono, merge_id,
                  HEAD, merging, other, conflicts, run >>

\* The targeted part checking the first pull of the list, whatever --pull_id
\* names.
pull_check_first == IF idx = 0 THEN mono[1] ELSE mono[idx]

\* pull_check of the calc_conflicts call at hand: pull_update of the
\* --update_comments loop, or (idx = 0) pull_merge of --pull_id
pull_check == IF idx = 0 THEN args.pull_id ELSE mono[idx]

\* main, lines 195-203: the next pull_update, calc_conflicts begins
UpdateAllNext ==
  /\ pc = "update_all"
  /\ idx <= Len(mono)
  /\ conflicts' = << >>
  /\ other' = 1
  /\ pc' = "cc_loop"
  /\ UNCHANGED << legacyVars, labelVars, invVars, events, comments, last, gh, fails, base_fails, args, mono, merge_id,
                  HEAD, merging, idx, run >>

\* main: the --update_comments loop is over
UpdateAllReturn ==
  /\ pc = "update_all"
  /\ idx > Len(mono)
  /\ pc' = IF args.pull_id # 0 THEN "pull_id" ELSE "return"
  /\ UNCHANGED << legacyVars, labelVars, invVars, events, comments, last, gh, fails, base_fails, args, mono, merge_id,
                  HEAD, merging, idx, other, conflicts, run >>

\* The lookup with a missing pull skipped: main returns, exit status 0.
PullIdLookup_skip ==
  /\ pc = "pull_id"
  /\ IF \E k \in 1..Len(mono) : mono[k] = args.pull_id
     THEN /\ idx' = 0
          /\ conflicts' = << >>
          /\ other' = 1
          /\ pc' = "cc_loop"
     ELSE /\ pc' = "return"
          /\ UNCHANGED << idx, other, conflicts >>
  /\ UNCHANGED << legacyVars, labelVars, invVars, events, comments, last, gh, fails, base_fails,
                  args, mono, merge_id, HEAD, merging, run >>

\* main, lines 210-226: look the pull up, sys.exit(-1) when it is missing
PullIdLookup ==
  /\ pc = "pull_id"
  /\ IF \E k \in 1..Len(mono) : mono[k] = args.pull_id
     THEN /\ idx' = 0
          /\ conflicts' = << >>
          /\ other' = 1
          /\ pc' = "cc_loop"
          /\ UNCHANGED run
     ELSE /\ run' = [run EXCEPT !.exc = "sys.exit(-1)"]
          /\ pc' = "sys.exit"
          /\ UNCHANGED << idx, other, conflicts >>
  /\ UNCHANGED << legacyVars, labelVars, invVars, events, comments, last, gh, fails, base_fails, args, mono, merge_id,
                  HEAD, merging >>

\* calc_conflicts: the first position from k on whose pull is not pull_check
\* (`continue` on the same CON_id); Len + 1 when there is none
NextOther(pulls_mergeable, check, k) ==
  LET rest == {n \in k..Len(pulls_mergeable) : pulls_mergeable[n] # check}
  IN IF rest = {} THEN Len(pulls_mergeable) + 1
     ELSE CHOOSE n \in rest : \A n2 \in rest : n <= n2

\* No checkout: the trial starts from wherever the work tree stands.
TrialBase_stay(check) == HEAD

\* calc_conflicts: the commit checked out before a trial merge
TrialBase(check) == merge_id[check]

\* git checkout base_id before the first trial merge only: the later trials
\* start from what the trial before them left.
CalcConflictsCheckout_first ==
  /\ pc = "cc_loop"
  /\ NextOther(mono, pull_check, other) <= Len(mono)
  /\ other' = NextOther(mono, pull_check, other)
  /\ HEAD' = IF NextOther(mono, pull_check, 1) = other'
             THEN TrialBase(pull_check) ELSE HEAD
  /\ pc' = "cc_merge"
  /\ UNCHANGED << legacyVars, labelVars, invVars, events, comments, last, gh, fails, base_fails, args, mono, merge_id,
                  merging, idx, conflicts, run >>

\* calc_conflicts: git checkout base_id
CalcConflictsCheckout ==
  /\ pc = "cc_loop"
  /\ NextOther(mono, pull_check, other) <= Len(mono)
  /\ other' = NextOther(mono, pull_check, other)
  /\ HEAD' = TrialBase(pull_check)
  /\ pc' = "cc_merge"
  /\ UNCHANGED << legacyVars, labelVars, invVars, events, comments, last, gh, fails, base_fails, args, mono, merge_id,
                  merging, idx, conflicts, run >>

\* The trial merge with the relation made symmetric: a pull_other that
\* merges is recorded all the same when its own list holds pull_check.
CalcConflictsMerge_symmetric ==
  /\ pc = "cc_merge"
  /\ \E o \in MergeOutcomes(mono[other]) :
       /\ fails' = o.fails
       /\ base_fails' = o.base_fails
       /\ IF o.failed
          THEN /\ merging' = TRUE
               /\ pc' = "cc_abort"
               /\ UNCHANGED << HEAD, other, conflicts >>
          ELSE /\ HEAD' = HEAD \cup {mono[other]}
               /\ other' = other + 1
               /\ pc' = "cc_loop"
               /\ conflicts' =
                    IF \E k \in 1..Len(run.lists[mono[other]]) :
                         run.lists[mono[other]][k] = pull_check
                    THEN Append(conflicts, mono[other]) ELSE conflicts
               /\ UNCHANGED merging
  /\ UNCHANGED << legacyVars, labelVars, invVars, events, comments, last, gh, args, mono, merge_id,
                  idx, run >>

\* calc_conflicts: git merge pull_other.CON_commit
CalcConflictsMerge ==
  /\ pc = "cc_merge"
  /\ \E o \in MergeOutcomes(mono[other]) :
       /\ fails' = o.fails
       /\ base_fails' = o.base_fails
       /\ IF o.failed
          THEN /\ merging' = TRUE
               /\ pc' = "cc_abort"
               /\ UNCHANGED << HEAD, other >>
          ELSE /\ HEAD' = HEAD \cup {mono[other]}
               /\ other' = other + 1
               /\ pc' = "cc_loop"
               /\ UNCHANGED merging
  /\ UNCHANGED << legacyVars, labelVars, invVars, events, comments, last, gh, args, mono, merge_id, idx, conflicts, run >>

\* The except branch without git merge --abort.
CalcConflictsAbort_forgotten ==
  /\ pc = "cc_abort"
  /\ conflicts' = Append(conflicts, mono[other])
  /\ other' = other + 1
  /\ pc' = "cc_loop"
  /\ UNCHANGED << legacyVars, labelVars, invVars, events, comments, last, gh, fails, base_fails, args,
                  mono, merge_id, HEAD, merging, idx, run >>

\* calc_conflicts, except CalledProcessError: git merge --abort;
\* conflicts += [pull_other]
CalcConflictsAbort ==
  /\ pc = "cc_abort"
  /\ merging' = FALSE
  /\ conflicts' = Append(conflicts, mono[other])
  /\ other' = other + 1
  /\ pc' = "cc_loop"
  /\ UNCHANGED << legacyVars, labelVars, invVars, events, comments, last, gh, fails, base_fails, args, mono, merge_id,
                  HEAD, idx, run >>

\* calc_conflicts returns; update_comment(dry_run, pull, pulls_conflict)
CalcConflictsReturn ==
  /\ pc = "cc_loop"
  /\ NextOther(mono, pull_check, other) > Len(mono)
  /\ LET thread == comments[pull_check]
         w == update_comment(thread, [k \in 1..Len(conflicts) |-> PullRec(conflicts[k])])
     IN /\ comments' = [comments EXCEPT ![pull_check] = ApplyWrite(thread, w, args.dry_run)]
        /\ run' = [run EXCEPT !.lists[pull_check] = conflicts,
                              !.writes[pull_check] = w.kind]
  /\ IF idx = 0
     THEN /\ pc' = "return"
          /\ idx' = idx
     ELSE /\ pc' = "update_all"
          /\ idx' = idx + 1
  /\ UNCHANGED << legacyVars, labelVars, invVars, events, last, gh, fails, base_fails, args, mono, merge_id, HEAD,
                  merging, other, conflicts >>

\* update_comment: a call to the forge raises GithubException, which
\* nothing catches.  The call is the read of the comments or the write;
\* a write that raises has been made (the answer was lost) or not.
UpdateCommentFails ==
  /\ pc = "cc_loop"
  /\ NextOther(mono, pull_check, other) > Len(mono)
  /\ events < MaxFailures
  /\ events' = events + 1
  /\ LET thread == comments[pull_check]
         w == update_comment(thread, [k \in 1..Len(conflicts) |-> PullRec(conflicts[k])])
     IN \E made \in BOOLEAN :
          comments' = [comments EXCEPT ![pull_check] =
                         ApplyWrite(thread, w, args.dry_run \/ ~made)]
  /\ run' = [run EXCEPT !.lists[pull_check] = conflicts,
                        !.writes[pull_check] = "failed",
                        !.exc = "forge"]
  /\ pc' = "raise"
  /\ UNCHANGED << legacyVars, labelVars, invVars, last, gh, fails, base_fails, args, mono,
                  merge_id, HEAD, merging, idx, other, conflicts >>

\* The process ends (main returns, an exception unwinds it, or sys.exit):
\* the temporary work tree is removed with everything the run held.
ProcessExit ==
  /\ pc \in {"return", "raise", "sys.exit"}
  /\ pc' = CASE pc = "return" -> "done"
             [] pc = "raise" -> "crashed"
             [] pc = "sys.exit" -> "exit"
  /\ HEAD' = {}
  /\ merging' = FALSE
  /\ merge_id' = [p \in Pulls |-> NoCommit]
  /\ idx' = 0
  /\ other' = 0
  /\ conflicts' = << >>
  /\ UNCHANGED << legacyVars, labelVars, invVars, events, comments, last, gh, fails, base_fails, args, mono, run >>

\* ------------------------------------------------------------- the forge
\* A pull is closed.  (The forge changes between two runs of the job;
\* what is recorded about the run before is dropped.)
Close(p) ==
  /\ Terminated
  /\ gh[p].state = "open"
  /\ events < MaxEvents
  /\ events' = events + 1
  /\ gh' = [gh EXCEPT ![p].state = "closed"]
  /\ pc' = "idle"
  /\ mono' = << >>
  /\ run' = NoRun
  /\ UNCHANGED << legacyVars, labelVars, invVars, comments, last, fails, base_fails, args, merge_id,
                  HEAD, merging, idx, other, conflicts >>

\* New commits are pushed to a pull: the forge recomputes whether it merges
\* into the target branch and nothing is known about its merges any more.
Push(p, mergeable) ==
  /\ Terminated
  /\ gh[p].state = "open"
  /\ events < MaxEvents
  /\ events' = events + 1
  /\ gh' = [gh EXCEPT ![p].mergeable = mergeable]
  /\ fails' = [q \in Pairs |-> IF p \in {q[1], q[2]} THEN "?" ELSE fails[q]]
  /\ base_fails' = [base_fails EXCEPT ![p] = "?"]
  /\ pc' = "idle"
  /\ mono' = << >>
  /\ run' = NoRun
  /\ UNCHANGED << legacyVars, labelVars, invVars, comments, last, args, merge_id, HEAD, merging, idx,
                  other, conflicts >>

\* The job is scheduled again and again with one command line.
InitRun ==
  /\ comments = [p \in Pulls |-> << >>]
  /\ last = NoCall
  /\ gh \in {OpenMergeable, TwoRepos}
  /\ \E a \in ArgSets : InitMain(a)

NextRun ==
  \/ StartRun
  \/ CalcMergedCheckout
  \/ CalcMergedMerge
  \/ CalcMergedReturn
  \/ UpdateAllNext
  \/ UpdateAllReturn
  \/ PullIdLookup
  \/ CalcConflictsCheckout
  \/ CalcConflictsMerge
  \/ CalcConflictsAbort
  \/ CalcConflictsReturn
  \/ ProcessExit
  \/ \E p \in Pulls : Close(p)
  \/ \E p \in Pulls, m \in {"True", "False"} : Push(p, m)

SpecRun == InitRun /\ [][NextRun]_vars

\* Update-all runs on a forge and a repository that do not change, where
\* calls to the forge can fail: the job is scheduled again until a run
\* completes.  The title of pull 30 quotes an HTML comment.
InitRetry ==
  /\ comments = [p \in Pulls |-> << >>]
  /\ last = NoCall
  /\ gh = [OpenMergeable EXCEPT ![30].title = << OPEN >>]
  /\ InitMain([NoArgs EXCEPT !.update_comments = TRUE])

\* The job is scheduled again unless its last run completed.
Reschedule == pc # "done" /\ StartRun

NextRetry ==
  \/ Reschedule
  \/ CalcMergedCheckout
  \/ CalcMergedMerge
  \/ CalcMergedReturn
  \/ UpdateAllNext
  \/ UpdateAllReturn
  \/ CalcConflictsCheckout
  \/ CalcConflictsMerge
  \/ CalcConflictsAbort
  \/ CalcConflictsReturn
  \/ UpdateCommentFails
  \/ ProcessExit

SpecRetry == InitRetry /\ [][NextRetry]_vars

\* An update-all run (--update_comments) that completed is followed by a
\* targeted run (--pull_id) on what the forge and the repository then hold.
Retarget ==
  /\ pc = "done"
  /\ args.update_comments
  /\ \E x \in Pulls, d \in BOOLEAN :
       args' = [args EXCEPT !.update_comments = FALSE, !.pull_id = x, !.dry_run = d]
  /\ last' = [op |-> "full run", lists |-> run.lists, writes |-> run.writes,
              start |-> run.start]
  /\ pc' = "idle"
  /\ UNCHANGED << legacyVars, labelVars, invVars, events, comments, gh, fails,
                  base_fails, mono, merge_id, HEAD, merging, idx, other,
                  conflicts, run >>

\* The pulls are open; one of them may not merge into the target branch or
\* have a title with a marker in it; the thread of 20 may hold an Annotation
\* of an earlier run.
InitTarget ==
  /\ gh \in {OpenMergeable,
             [OpenMergeable EXCEPT ![30].title = << OPEN >>],
             [OpenMergeable EXCEPT ![10].mergeable = "False"]}
  /\ comments \in {[p \in Pulls |-> << >>],
                   [p \in Pulls |->
                      IF p = 20
                      THEN << [user |-> BOT,
                               body |-> get_metadata_comment(
                                          << SEC_CONFLICTS \o NoConflictsText >>)] >>
                      ELSE << >>]}
  /\ last = NoCall
  /\ \E d \in BOOLEAN :
       InitMain([NoArgs EXCEPT !.update_comments = TRUE, !.dry_run = d])

NextTarget ==
  \/ Reschedule
  \/ Retarget
  \/ CalcMergedCheckout
  \/ CalcMergedMerge
  \/ CalcMergedReturn
  \/ UpdateAllNext
  \/ UpdateAllReturn
  \/ PullIdLookup
  \/ CalcConflictsCheckout
  \/ CalcConflictsMerge
  \/ CalcConflictsAbort
  \/ CalcConflictsReturn
  \/ ProcessExit

SpecTarget == InitTarget /\ [][NextTarget]_vars

\* ---------------------------- scripts/util/util.py return_with_pull_metadata
\* A pull object as the list call returns it: mergeable and merged are
\* fetched from the forge when one of them is first read.
PullObject(p) ==
  [number |-> p, completed |-> FALSE, mergeable |-> "None", merged |-> FALSE,
   draft |-> FALSE]

\* The object with its attributes as the forge reports them now.
Fetched(o) ==
  [o EXCEPT !.completed = TRUE,
            !.mergeable = gh[o.number].mergeable,
            !.merged = gh[o.number].merged,
            !.draft = gh[o.number].draft]

\* pulls_update_mergeable = lambda: [p for p in pulls if p.mergeable is None and not p.merged]
NeedsUpdate(o) == o.mergeable = "None" /\ ~o.merged

pulls_update_mergeable(l) == SelectSeq(l, NeedsUpdate)

\* pulls = get_pulls()   (lines 89 and 95)
InvGetPulls ==
  /\ ipc \in {"idle", "refetch"}
  /\ pulls' = [k \in 1..Len(get_pulls) |-> PullObject(get_pulls[k])]
  /\ pos' = 1
  /\ ipc' = "while"
  /\ UNCHANGED << legacyVars, labelVars, syncVars, runVars >>

\* while pulls_update_mergeable(): reading p.mergeable of the next object
InvRead ==
  /\ ipc = "while"
  /\ pos <= Len(pulls)
  /\ pulls' = [pulls EXCEPT ![pos] = IF @.completed THEN @ ELSE Fetched(@)]
  /\ pos' = pos + 1
  /\ UNCHANGED << legacyVars, labelVars, syncVars, runVars, ipc >>

\* while pulls_update_mergeable(): the test, and `return pulls`
InvTest ==
  /\ ipc = "while"
  /\ pos > Len(pulls)
  /\ ipc' = IF pulls_update_mergeable(pulls) # << >> THEN "update" ELSE "returned"
  /\ UNCHANGED << legacyVars, labelVars, syncVars, runVars, pulls, pos >>

\* The loop body without p.update() and without the new get_pulls(): the
\* same objects are tested again.
InvUpdate_skip ==
  /\ ipc = "update"
  /\ ipc' = "while"
  /\ UNCHANGED << legacyVars, labelVars, syncVars, runVars, pulls, pos >>

\* [p.update() for p in pulls_update_mergeable()]
InvUpdate ==
  /\ ipc = "update"
  /\ pulls' = [k \in 1..Len(pulls) |->
                 IF NeedsUpdate(pulls[k]) THEN Fetched(pulls[k]) ELSE pulls[k]]
  /\ ipc' = "refetch"
  /\ UNCHANGED << legacyVars, labelVars, syncVars, runVars, pos >>

\* The forge finishes computing whether a pull merges.
ForgeResolve(p, m) ==
  /\ gh[p].mergeable = "None"
  /\ ~gh[p].merged
  /\ gh' = [gh EXCEPT ![p].mergeable = m]
  /\ UNCHANGED << legacyVars, labelVars, syncVars, invVars, fails, base_fails, args, pc, mono,
                  merge_id, HEAD, merging, idx, other, conflicts, run, events >>

\* A pull is merged: it is closed and its tri-state is computed no more.
ForgeMerge(p) ==
  /\ gh[p].state = "open"
  /\ gh' = [gh EXCEPT ![p].state = "closed", ![p].merged = TRUE]
  /\ UNCHANGED << legacyVars, labelVars, syncVars, invVars, fails, base_fails, args, pc, mono,
                  merge_id, HEAD, merging, idx, other, conflicts, run, events >>

\* The pull or its target branch moves: the tri-state is unknown again.
ForgeInvalidate(p) ==
  /\ gh[p].state = "open"
  /\ gh[p].mergeable # "None"
  /\ gh' = [gh EXCEPT ![p].mergeable = "None"]
  /\ UNCHANGED << legacyVars, labelVars, syncVars, invVars, fails, base_fails, args, pc, mono,
                  merge_id, HEAD, merging, idx, other, conflicts, run, events >>

InitInv ==
  /\ comments = [p \in Pulls |-> << >>]
  /\ last = NoCall
  /\ InitMain(NoArgs)
  /\ gh \in [Pulls -> [state : {"open"}, mergeable : {"None", "True", "False"},
                       merged : {FALSE}, slug : {"a"}, draft : {FALSE},
                       title : {<< "a" >>}]]

NextInv ==
  \/ InvGetPulls
  \/ InvRead
  \/ InvTest
  \/ InvUpdate
  \/ \E p \in Pulls, m \in {"True", "False"} : ForgeResolve(p, m)
  \/ \E p \in Pulls : ForgeMerge(p)
  \/ \E p \in Pulls : ForgeInvalidate(p)

SpecInv == InitInv /\ [][NextInv]_vars

\* The process that runs return_with_pull_metadata is not suspended for
\* ever: each of its steps is taken when it stays possible.  Nothing is
\* assumed about the forge.
SpecInvLive ==
  /\ InitInv
  /\ [][NextInv]_vars
  /\ WF_vars(InvGetPulls)
  /\ WF_vars(InvRead)
  /\ WF_vars(InvTest)
  /\ WF_vars(InvUpdate)

\* --------------------------------------------- scripts/label_rebase.py main
\* The notice without the marker at its head.
NeedsRebaseComment_plain ==
  [user |-> BOT,
   body |-> << "\n(octopus) This pull request conflicts with the target branch" >>]

\* The notice that goes with the label 'Needs rebase'.
NeedsRebaseComment ==
  [user |-> BOT,
   body |-> NEEDS_REBASE
              \o << "\n(octopus) This pull request conflicts with the target branch" >>]

\* [c for c in issue.get_comments() if c.body.startswith(ID_NEEDS_REBASE_COMMENT)]
needs_rebase_comments(thread) ==
  {i \in 1..Len(thread) : StartsWith(thread[i].body, NEEDS_REBASE)}

\* The thread after c.delete() for each of these comments.
Deleted(thread, cs) ==
  LET keep == {i \in 1..Len(thread) : i \notin cs}
      nth(k) == CHOOSE i \in keep : Cardinality({j \in keep : j <= i}) = k
  IN [k \in 1..Cardinality(keep) |-> thread[nth(k)]]

\* main, line 23 returned: the loop over the pulls begins
LabelLoopStart ==
  /\ lpc = "idle"
  /\ ipc = "returned"
  /\ ipc' = "caller"
  /\ lpc' = "for"
  /\ lpos' = 1
  /\ printed' = << >>
  /\ intended' = << >>
  /\ UNCHANGED << syncVars, runVars, pulls, pos, labels, legacyVars >>

\* The loop body with the add branch taken for every pull that does not
\* merge, labelled or not.
LabelStep_relabel ==
  /\ lpc = "for"
  /\ lpos <= Len(pulls)
  /\ lpos' = lpos + 1
  /\ LET p == pulls[lpos]
         n == p.number
         cs == needs_rebase_comments(comments[n])
     IN IF p.draft
        THEN UNCHANGED << comments, labels, printed, intended >>
        ELSE IF p.mergeable = "True" /\ labels[n]
        THEN /\ printed' = printed \o
                  << [op |-> "remove_from_labels", pull |-> n, n |-> 1],
                     [op |-> "delete", pull |-> n, n |-> Cardinality(cs)] >>
             /\ intended' = intended \o
                  << [op |-> "remove_from_labels", pull |-> n, n |-> 1],
                     [op |-> "delete", pull |-> n, n |-> Cardinality(cs)] >>
             /\ IF args.dry_run
                THEN UNCHANGED << comments, labels >>
                ELSE /\ labels' = [labels EXCEPT ![n] = FALSE]
                     /\ comments' = [comments EXCEPT ![n] = Deleted(@, cs)]
        ELSE IF p.mergeable # "True"
        THEN /\ printed' = printed \o
                  << [op |-> "add_to_labels", pull |-> n, n |-> 1] >>
             /\ intended' = intended \o
                  << [op |-> "add_to_labels", pull |-> n, n |-> 1],
                     [op |-> "create_comment", pull |-> n, n |-> 1] >>
             /\ IF args.dry_run
                THEN UNCHANGED << comments, labels >>
                ELSE /\ labels' = [labels EXCEPT ![n] = TRUE]
                     /\ comments' = [comments EXCEPT ![n] = Append(@, NeedsRebaseComment)]
        ELSE UNCHANGED << comments, labels, printed, intended >>
  /\ UNCHANGED << last, runVars, invVars, lpc, legacyVars >>

\* main, lines 27-50: one pull of the loop
LabelStep ==
  /\ lpc = "for"
  /\ lpos <= Len(pulls)
  /\ lpos' = lpos + 1
  /\ LET p == pulls[lpos]
         n == p.number
         cs == needs_rebase_comments(comments[n])
     IN IF p.draft
        THEN UNCHANGED << comments, labels, printed, intended >>
        ELSE IF p.mergeable = "True" /\ labels[n]
        THEN /\ printed' = printed \o
                  << [op |-> "remove_from_labels", pull |-> n, n |-> 1],
                     [op |-> "delete", pull |-> n, n |-> Cardinality(cs)] >>
             /\ intended' = intended \o
                  << [op |-> "remove_from_labels", pull |-> n, n |-> 1],
                     [op |-> "delete", pull |-> n, n |-> Cardinality(cs)] >>
             /\ IF args.dry_run
                THEN UNCHANGED << comments, labels >>
                ELSE /\ labels' = [labels EXCEPT ![n] = FALSE]
                     /\ comments' = [comments EXCEPT ![n] = Deleted(@, cs)]
        ELSE IF p.mergeable # "True" /\ ~labels[n]
        THEN /\ printed' = printed \o
                  << [op |-> "add_to_labels", pull |-> n, n |-> 1] >>
             /\ intended' = intended \o
                  << [op |-> "add_to_labels", pull |-> n, n |-> 1],
                     [op |-> "create_comment", pull |-> n, n |-> 1] >>
             /\ IF args.dry_run
                THEN UNCHANGED << comments, labels >>
                ELSE /\ labels' = [labels EXCEPT ![n] = TRUE]
                     /\ comments' = [comments EXCEPT ![n] = Append(@, NeedsRebaseComment)]
        ELSE UNCHANGED << comments, labels, printed, intended >>
  /\ UNCHANGED << last, runVars, invVars, lpc, legacyVars >>

\* main: the loop is over and the process ends
LabelReturn ==
  /\ lpc = "for"
  /\ lpos > Len(pulls)
  /\ lpc' = "idle"
  /\ ipc' = "idle"
  /\ UNCHANGED << syncVars, runVars, pulls, pos, labels, lpos, printed, intended,
                  legacyVars >>

\* The author turns the pull into a draft, or marks it ready for review.
ToggleDraft(p) ==
  /\ gh[p].state = "open"
  /\ gh' = [gh EXCEPT ![p].draft = ~@]
  /\ UNCHANGED << legacyVars, labelVars, syncVars, invVars, fails, base_fails, args, pc, mono,
                  merge_id, HEAD, merging, idx, other, conflicts, run, events >>

\* The pulls 10 and 20 are open, 30 has been closed; the command line sets
\* --dry_run or not.
InitLabel ==
  /\ comments = [p \in Pulls |-> IF p = SyncPull THEN << ReviewComment >> ELSE << >>]
  /\ last = NoCall
  /\ \E d \in BOOLEAN : InitMain([NoArgs EXCEPT !.dry_run = d])
  /\ \E m \in [{10, 20} -> {"True", "False"}] :
       gh = [p \in Pulls |->
               IF p = 30 THEN [OpenMergeable[p] EXCEPT !.state = "closed"]
               ELSE [OpenMergeable[p] EXCEPT !.mergeable = m[p]]]

NextLabel ==
  \/ InvGetPulls
  \/ InvRead
  \/ InvTest
  \/ InvUpdate
  \/ LabelLoopStart
  \/ LabelStep
  \/ LabelReturn
  \/ \E p \in Pulls, m \in {"True", "False"} : ForgeResolve(p, m)
  \/ \E p \in Pulls : ForgeInvalidate(p)
  \/ \E p \in Pulls : ToggleDraft(p)

SpecLabel == InitLabel /\ [][NextLabel]_vars

\* ------------------------------------------------------ conflicts.py main
\* The variant that keeps one scratch tree (--git_repo) from run to run.
\* What the one tracked file of the tree can hold.
Contents == {"old", "new", "x"}

\* `git status` shows a change of the tracked file: not staged, or staged.
Dirty(t) == t.work # t.index \/ t.index # t.head

\* git checkout of a commit that holds m: git refuses when the file differs
\* between HEAD and that commit and the index holds neither that commit's
\* version nor an untouched copy of HEAD's.
CheckoutFails(t, m) ==
  /\ t.head # m
  /\ t.index # m
  /\ (t.index # t.head \/ t.work # t.index)

\* The tree after a checkout that git accepts: local changes are carried
\* along.
Checkout(t, m) ==
  IF t.head = m THEN t
  ELSE IF t.index = m THEN [t EXCEPT !.head = m]
  ELSE [t EXCEPT !.head = m, !.index = m, !.work = m]

\* `if pull_update.number < 13385: continue`, for the numbers of Pulls
FirstUpdated == 20

ID_CONFLICTS_COMMENT == << OPEN, "e57a", CLOSE >>

\* '\n* #{} ({} by {})' of one pull
OldConflictLine(p) ==
  << CASE p.num = 10 -> "\n* #10 ("
       [] p.num = 20 -> "\n* #20 ("
       [] p.num = 30 -> "\n* #30 (" >>
    \o strip(p.title) \o << " by u)" >>

\* update_comment, lines 54-60: the text of the comment
OldText(pulls_conflict) ==
  ID_CONFLICTS_COMMENT
    \o << "Note to reviewers: This pull request conflicts" >>
    \o Join([k \in 1..Len(pulls_conflict) |-> OldConflictLine(pulls_conflict[k])])
    \o << "\n\nIf you consider" >>

\* update_comment of conflicts.py: the remote call it decides on
update_comment_old(thread, pulls_conflict) ==
  IF pulls_conflict = << >> THEN [kind |-> "none", c |-> 0, body |-> << >>]
  ELSE LET hit == {i \in 1..Len(thread) :
                     /\ thread[i].user = BOT
                     /\ StartsWith(thread[i].body, ID_CONFLICTS_COMMENT)}
       IN IF hit # {}
          THEN [kind |-> "edit", c |-> CHOOSE i \in hit : \A j \in hit : i <= j,
                body |-> OldText(pulls_conflict)]
          ELSE [kind |-> "create", c |-> 0, body |-> OldText(pulls_conflict)]

\* pulls_mergeable = [p for p in pulls if p.mergeable]
old_pulls_mergeable == SelectSeq(pulls, LAMBDA o : o.mergeable = "True")

\* Somebody edits the tracked file in the scratch tree between two runs.
TreeEdit(c) ==
  /\ legacy.pc = "idle"
  /\ tree.work # c
  /\ tree' = [tree EXCEPT !.work = c]
  /\ UNCHANGED << syncVars, runVars, invVars, labelVars, legacy >>

\* Somebody stages the file (`git add`) between two runs.
TreeStage ==
  /\ legacy.pc = "idle"
  /\ tree.index # tree.work
  /\ tree' = [tree EXCEPT !.index = tree.work]
  /\ UNCHANGED << syncVars, runVars, invVars, labelVars, legacy >>

\* A commit that changes the file lands on origin's base branch.
OriginMoves ==
  /\ legacy.pc = "idle"
  /\ tree.origin = "old"
  /\ tree' = [tree EXCEPT !.origin = "new"]
  /\ UNCHANGED << syncVars, runVars, invVars, labelVars, legacy >>

\* main, lines 84-91: parse_args, chdir, gc, prune
LegacyStart ==
  /\ legacy.pc = "idle"
  /\ legacy' = [NoLegacy EXCEPT !.pc = "fetch_branch", !.dirty = Dirty(tree)]
  /\ UNCHANGED << syncVars, runVars, invVars, labelVars, tree >>

\* main, line 94: git_fetch_branch (fetch origin, checkout FETCH_HEAD,
\* checkout -B); check_call raises when git refuses
LegacyFetchBranch ==
  /\ legacy.pc = "fetch_branch"
  /\ IF CheckoutFails(tree, tree.origin)
     THEN /\ legacy' = [legacy EXCEPT !.pc = "crashed"]
          /\ UNCHANGED tree
     ELSE /\ legacy' = [legacy EXCEPT !.pc = "checkout"]
          /\ tree' = Checkout(tree, tree.origin)
  /\ UNCHANGED << syncVars, runVars, invVars, labelVars >>

\* main, lines 95-96: checkout origin/base, checkout -B base
LegacyCheckoutBase ==
  /\ legacy.pc = "checkout"
  /\ IF CheckoutFails(tree, tree.origin)
     THEN /\ legacy' = [legacy EXCEPT !.pc = "crashed"]
          /\ UNCHANGED tree
     ELSE /\ legacy' = [legacy EXCEPT !.pc = "diff"]
          /\ tree' = Checkout(tree, tree.origin)
  /\ UNCHANGED << syncVars, runVars, invVars, labelVars >>

\* main, line 97: git diff --exit-code (working tree against index)
LegacyDiff ==
  /\ legacy.pc = "diff"
  /\ legacy' = [legacy EXCEPT
                  !.pc = IF tree.work # tree.index THEN "crashed" ELSE "diff_staged"]
  /\ UNCHANGED << syncVars, runVars, invVars, labelVars, tree >>

\* main, line 98: git diff --staged --exit-code (index against HEAD)
LegacyDiffStaged ==
  /\ legacy.pc = "diff_staged"
  /\ legacy' = [legacy EXCEPT
                  !.pc = IF tree.index # tree.head THEN "crashed" ELSE "fetch"]
  /\ UNCHANGED << syncVars, runVars, invVars, labelVars, tree >>

\* main, line 101: git fetch upstream-pull (the heads of the pulls)
LegacyFetchPulls ==
  /\ legacy.pc = "fetch"
  /\ legacy' = [legacy EXCEPT !.pc = "get_pulls", !.fetched = TRUE]
  /\ UNCHANGED << syncVars, runVars, invVars, labelVars, tree >>

\* main, line 106: return_with_pull_metadata is called
LegacyGetPulls ==
  /\ legacy.pc = "get_pulls"
  /\ InvGetPulls

\* main, lines 106-113: return_with_pull_metadata has returned
LegacyPulled ==
  /\ legacy.pc = "get_pulls"
  /\ ipc = "returned"
  /\ ipc' = "caller"
  /\ legacy' = [legacy EXCEPT
                  !.pc = IF args.update_comments THEN "update" ELSE "pull_id",
                  !.at = 1]
  /\ UNCHANGED << syncVars, runVars, labelVars, pulls, pos, tree >>

\* main, lines 114-120: one pull of the loop, calc_conflicts and
\* update_comment.  The repository decides which merges fail; the merge of
\* the pull itself onto the base is not in a try block.
LegacyCheck ==
  /\ legacy.pc = "update"
  /\ legacy.at <= Len(old_pulls_mergeable)
  /\ LET pm == old_pulls_mergeable
         p == pm[legacy.at].number
         others == SelectSeq(pm, LAMBDA o : o.number # p)
     IN IF p < FirstUpdated
        THEN /\ legacy' = [legacy EXCEPT !.at = @ + 1]
             /\ UNCHANGED comments
        ELSE \/ /\ legacy' = [legacy EXCEPT !.pc = "crashed", !.merges = @ + 1]
                /\ UNCHANGED comments
             \/ \E failing \in SUBSET {others[k].number : k \in 1..Len(others)} :
                  LET found == SelectSeq(others, LAMBDA o : o.number \in failing)
                      pulls_conflict == [k \in 1..Len(found) |-> PullRec(found[k].number)]
                      w == update_comment_old(comments[p], pulls_conflict)
                  IN /\ comments' = [comments EXCEPT
                                       ![p] = ApplyWrite(@, w, args.dry_run)]
                     /\ legacy' = [legacy EXCEPT
                          !.at = @ + 1,
                          !.merges = @ + 1 + Len(others),
                          !.writes = IF w.kind = "none" \/ args.dry_run
                                     THEN @ ELSE @ + 1]
  /\ UNCHANGED << last, runVars, invVars, labelVars, tree >>

\* main, line 114: the loop is over
LegacyLoopEnd ==
  /\ legacy.pc = "update"
  /\ legacy.at > Len(old_pulls_mergeable)
  /\ legacy' = [legacy EXCEPT !.pc = "pull_id"]
  /\ UNCHANGED << syncVars, runVars, invVars, labelVars, tree >>

\* main, lines 122-145: --pull_id
LegacyPullId ==
  /\ legacy.pc = "pull_id"
  /\ LET pull_merge == SelectSeq(pulls, LAMBDA o : o.number = args.pull_id)
     IN IF args.pull_id = 0
        THEN legacy' = [legacy EXCEPT !.pc = "done"]
        ELSE IF pull_merge = << >> \/ pull_merge[1].mergeable # "True"
        THEN legacy' = [legacy EXCEPT !.pc = "exit"]
        ELSE \/ legacy' = [legacy EXCEPT !.pc = "crashed", !.merges = @ + 1]
             \/ legacy' = [legacy EXCEPT
                             !.pc = "done",
                             !.merges = @ + Len(old_pulls_mergeable)]
  /\ UNCHANGED << syncVars, runVars, invVars, labelVars, tree >>

\* Pull 30 is still being tested by the forge when the run starts.
InitLegacy ==
  /\ gh = [OpenMergeable EXCEPT ![30].mergeable = "None"]
  /\ comments \in {[p \in Pulls |-> << >>],
                   [p \in Pulls |->
                      IF p = 20
                      THEN << [user |-> BOT, body |-> OldText(<< PullRec(10) >>)] >>
                      ELSE << >>]}
  /\ last = NoCall
  /\ \E a \in [update_comments : BOOLEAN, pull_id : {0, 20}, dry_run : BOOLEAN,
               github_repos : {<< "a" >>}] : InitMain(a)

NextLegacy ==
  \/ \E c \in Contents : TreeEdit(c)
  \/ TreeStage
  \/ OriginMoves
  \/ LegacyStart
  \/ LegacyFetchBranch
  \/ LegacyCheckoutBase
  \/ LegacyDiff
  \/ LegacyDiffStaged
  \/ LegacyFetchPulls
  \/ LegacyGetPulls
  \/ InvRead
  \/ InvTest
  \/ InvUpdate
  \/ LegacyPulled
  \/ LegacyCheck
  \/ LegacyLoopEnd
  \/ LegacyPullId
  \/ \E p \in Pulls, m \in {"True", "False"} : ForgeResolve(p, m)

SpecLegacy == InitLegacy /\ [][NextLegacy]_vars

\* ------------------------- scripts/conflicts.py update_comment, two runs
\* Titles that hold no marker.
PlainTitles == {t \in Titles : \A i \in 1..Len(t) : t[i] # OPEN}

\* The lists calc_conflicts can hand over for a pull that conflicts with the
\* pulls 20 and 30 or with one of them: in the order in which the forge
\* listed the pulls.
OrderLists ==
  {<< [num |-> n, title |-> t] >> : n \in {20, 30}, t \in PlainTitles}
    \cup {<< [num |-> 20, title |-> t], [num |-> 30, title |-> u] >> :
            t \in PlainTitles, u \in PlainTitles}
    \cup {<< [num |-> 30, title |-> u], [num |-> 20, title |-> t] >> :
            t \in PlainTitles, u \in PlainTitles}

Reverse(l) == [k \in 1..Len(l) |-> l[Len(l) + 1 - k]]

\* The first run calls update_comment(dry_run=False, pull, pulls_conflict).
OrderFirstRun ==
  /\ last.op = "none"
  /\ LET thread == comments[SyncPull]
     IN \E pulls_conflict \in OrderLists :
          \E w \in { update_comment(thread, pulls_conflict) } :
            /\ comments' = [comments EXCEPT ![SyncPull] = ApplyWrite(thread, w, FALSE)]
            /\ last' = [op |-> "first run", arg |-> pulls_conflict, kind |-> w.kind]
  /\ UNCHANGED << runVars, invVars, labelVars, legacyVars >>

\* The next run finds the same pulls in conflict; the forge has listed the
\* pulls in the same order or in the other one.
OrderSecondRun ==
  /\ last.op = "first run"
  /\ LET thread == comments[SyncPull]
     IN \E pulls_conflict \in {last.arg, Reverse(last.arg)} :
          \E w \in { update_comment(thread, pulls_conflict) } :
            /\ comments' = [comments EXCEPT ![SyncPull] = ApplyWrite(thread, w, FALSE)]
            /\ last' = [op |-> "second run", arg |-> pulls_conflict,
                        first |-> last.arg, kind |-> w.kind]
  /\ UNCHANGED << runVars, invVars, labelVars, legacyVars >>

\* The thread holds nothing, or a comment of a reviewer.
InitOrder ==
  /\ comments \in {[p \in Pulls |-> << >>],
                   [p \in Pulls |-> IF p = SyncPull THEN << ReviewComment >> ELSE << >>]}
  /\ last = NoCall
  /\ gh = OpenMergeable
  /\ InitMain(NoArgs)

NextOrder ==
  \/ OrderFirstRun
  \/ OrderSecondRun

SpecOrder == InitOrder /\ [][NextOrder]_vars

\* ------------- scripts/util/util.py get_metadata_comment, then parsing it
\* Lists of sections with distinct keys: a section is its key followed by
\* its text, and the text is any text.
TripLists ==
  {<< >>}
    \cup {<< k \o t >> : k \in {SEC_CONFLICTS, SEC_COVERAGE}, t \in Titles}
    \cup {<< SEC_CONFLICTS \o t, SEC_COVERAGE \o u >> : t \in Titles, u \in Titles}
    \cup {<< SEC_COVERAGE \o u, SEC_CONFLICTS \o t >> : t \in Titles, u \in Titles}

\* pull.create_issue_comment(get_metadata_comment(sections))
TripSerialize ==
  /\ last.op = "none"
  /\ \E sections \in TripLists :
       /\ comments' = [comments EXCEPT
                         ![SyncPull] = Append(@, [user |-> BOT,
                                                  body |-> get_metadata_comment(sections)])]
       /\ last' = [op |-> "serialized", arg |-> sections]
  /\ UNCHANGED << runVars, invVars, labelVars, legacyVars >>

\* c, sections = get_metadata_sections(pull)
TripParse ==
  /\ last.op = "serialized"
  /\ last' = [op |-> "parsed", arg |-> last.arg,
              out |-> get_metadata_sections(comments[SyncPull]).sections]
  /\ UNCHANGED << comments, runVars, invVars, labelVars, legacyVars >>

NextTrip ==
  \/ TripSerialize
  \/ TripParse

SpecTrip == InitOrder /\ [][NextTrip]_vars

\* ----- update_metadata_comment called by two processes on the same pull
\* scripts/conflicts.py and scripts/coverage.py are processes of their own.
\* Each call reads the thread (get_metadata_sections), decides on the body
\* and then writes (c.edit or create_issue_comment): two calls to the forge.
Procs == {"conflicts", "coverage"}

\* The call has read the thread and decided on its remote call.  The
\* conflicts process has a list of one pull, the coverage process a table.
RaceRead(proc) ==
  /\ last.op = "race"
  /\ last.call[proc].pc = "start"
  /\ LET thread == comments[SyncPull]
     IN \E arg \in IF proc = "conflicts"
                   THEN {<< [num |-> 20, title |-> t] >> : t \in PlainTitles}
                   ELSE CoverageTexts :
          last' = [last EXCEPT
                     !.call[proc] =
                       [pc |-> "read",
                        arg |-> arg,
                        saw |-> Len(last.order),
                        w |-> IF proc = "conflicts"
                              THEN update_comment(thread, arg)
                              ELSE update_metadata_comment(thread, SEC_COVERAGE, arg)]]
  /\ UNCHANGED << comments, runVars, invVars, labelVars, legacyVars >>

\* The write made on a fresh read of the thread: the call as one step.
RaceWrite_atomic(proc) ==
  /\ last.op = "race"
  /\ last.call[proc].pc = "read"
  /\ LET thread == comments[SyncPull]
         arg == last.call[proc].arg
         w == IF proc = "conflicts"
              THEN update_comment(thread, arg)
              ELSE update_metadata_comment(thread, SEC_COVERAGE, arg)
     IN comments' = [comments EXCEPT ![SyncPull] = ApplyWrite(thread, w, FALSE)]
  /\ last' = [last EXCEPT !.call[proc].pc = "done", !.order = Append(@, proc)]
  /\ UNCHANGED << runVars, invVars, labelVars, legacyVars >>

\* The call makes the remote call it decided on and returns.
RaceWrite(proc) ==
  /\ last.op = "race"
  /\ last.call[proc].pc = "read"
  /\ comments' = [comments EXCEPT
                    ![SyncPull] = ApplyWrite(@, last.call[proc].w, FALSE)]
  /\ last' = [last EXCEPT !.call[proc].pc = "done", !.order = Append(@, proc)]
  /\ UNCHANGED << runVars, invVars, labelVars, legacyVars >>

\* The thread holds a comment of a reviewer and no Annotation, or an
\* Annotation with a coverage section, or one with both sections.
InitRace ==
  /\ \E first \in {<< ReviewComment >>,
                   << ReviewComment,
                      [user |-> BOT,
                       body |-> get_metadata_comment(
                                  << SEC_COVERAGE \o << "\n\n### Coverage 1" >> >>)] >>,
                   << ReviewComment,
                      [user |-> BOT,
                       body |-> get_metadata_comment(
                                  << SEC_CONFLICTS \o NoConflictsText,
                                     SEC_COVERAGE \o << "\n\n### Coverage 1" >> >>)] >>} :
       /\ comments = [p \in Pulls |-> IF p = SyncPull THEN first ELSE << >>]
       /\ last = [op |-> "race", pre |-> first, order |-> << >>,
                  call |-> [proc \in Procs |->
                              [pc |-> "start", arg |-> << >>, saw |-> 0,
                               w |-> [kind |-> "none", c |-> 0, body |-> << >>]]]]
  /\ gh = OpenMergeable
  /\ InitMain(NoArgs)

NextRace ==
  \/ \E proc \in Procs : RaceRead(proc)
  \/ \E proc \in Procs : RaceWrite(proc)

SpecRace == InitRace /\ [][NextRace]_vars

\* -------- a comment of another account that starts with the marker
\* One call of a synchronizer on the thread: update_comment of
\* scripts/conflicts.py, update_metadata_comment for the coverage section, or
\* update_comment of the older conflicts.py (login_name is the bot's login).
ForeignCall(proc) ==
  LET thread == comments[SyncPull]
  IN \E arg \in IF proc = "coverage" THEN CoverageTexts
                ELSE {<< [num |-> 20, title |-> t] >> : t \in PlainTitles} :
       \E w \in { CASE proc = "conflicts" -> update_comment(thread, arg)
                    [] proc = "coverage" ->
                         update_metadata_comment(thread, SEC_COVERAGE, arg)
                    [] proc = "legacy" -> update_comment_old(thread, arg) } :
         /\ comments' = [comments EXCEPT ![SyncPull] = ApplyWrite(thread, w, FALSE)]
         /\ last' = [op |-> proc, w |-> w,
                     created |-> IF w.kind = "create"
                                 THEN last.created \cup {proc} ELSE last.created]
         /\ UNCHANGED << runVars, invVars, labelVars, legacyVars >>

\* The first comment of the thread is one of another account whose body
\* starts with the marker: the header alone, or with a section after it.
InitForeign ==
  /\ \E body \in {get_metadata_comment(<< >>),
                  get_metadata_comment(<< SEC_CONFLICTS \o NoConflictsText >>)} :
       comments = [p \in Pulls |->
                     IF p = SyncPull THEN << [user |-> "u", body |-> body] >>
                     ELSE << >>]
  /\ last = [op |-> "none", w |-> [kind |-> "none", c |-> 0, body |-> << >>],
             created |-> {}]
  /\ gh = OpenMergeable
  /\ InitMain(NoArgs)

NextForeign == \E proc \in {"conflicts", "coverage", "legacy"} : ForeignCall(proc)

SpecForeign == InitForeign /\ [][NextForeign]_vars

\* ---------------------------------------------- scripts/req_review.py
REVIEWERS_REQUESTED == << OPEN, "4a62", CLOSE >>

\* The accounts, and '@' + login of each.
Accounts == {"a", "b", "c"}

At(login) == CASE login = "a" -> "@a" [] login = "b" -> "@b" [] login = "c" -> "@c"
               [] OTHER -> "@"

\* issue.user.login and the names of p.get_files() of each pull
PullAuthor == (10 :> "a") @@ (20 :> "a") @@ (30 :> "b")

PullFiles == (10 :> {"f"}) @@ (20 :> {"g"}) @@ (30 :> {"f", "g"})

\* return_reviewers of what the REVIEWERS file can hold: pattern -> owners
ReviewersFiles ==
  {("*" :> << "@a", "@b" >>),
   ("f" :> << "@a" >>) @@ ("/g" :> << "@b", "@c" >>),
   ("f" :> << "@c" >>)}

\* reviewers_for_files: a leading "/" of the pattern is dropped; a pattern
\* matches the file of its name and "*" matches every file
reviewers_for_files(file_match_to_reviewer, files_changed) ==
  UNION {{file_match_to_reviewer[match][k] :
            k \in 1..Len(file_match_to_reviewer[match])} :
           match \in {m \in DOMAIN file_match_to_reviewer :
                        \E f \in files_changed :
                          LET stripped == IF m = "/g" THEN "g" ELSE m
                          IN stripped = "*" \/ stripped = f}}

\* The discard set with the author alone.
discard_set_author(p, thread, review) == {PullAuthor[p]}

\* main, lines 69-71: the author, who commented, who left a review comment
discard_set(p, thread, review) ==
  {PullAuthor[p]} \cup {thread[i].user : i \in 1..Len(thread)} \cup review

\* `if p.number < 20653: continue`, for the numbers of Pulls
FirstRequested == 20

\* main, lines 44-52: the REVIEWERS file is read and the open pulls are
\* listed with their attributes
ReqStart ==
  /\ last.pc = "idle"
  /\ pulls' = [k \in 1..Len(get_pulls) |-> Fetched(PullObject(get_pulls[k]))]
  /\ last' = [last EXCEPT !.pc = "for", !.at = 1]
  /\ UNCHANGED << comments, runVars, ipc, pos, labelVars, legacyVars >>

\* main, lines 54-89: one pull of the loop.  The reviewers are a set, which
\* the text names in some order.
ReqStep ==
  /\ last.pc = "for"
  /\ last.at <= Len(pulls)
  /\ LET p == pulls[last.at].number
         thread == comments[p]
         review_comment == {i \in 1..Len(thread) :
                              StartsWith(thread[i].body, REVIEWERS_REQUESTED)}
         requested_reviewers ==
           reviewers_for_files(last.file, PullFiles[p])
             \ {At(d) : d \in discard_set(p, thread, last.review[p])}
         n == Cardinality(requested_reviewers)
     IN IF \/ pulls[last.at].draft
           \/ p < FirstRequested
           \/ review_comment # {}
           \/ requested_reviewers = {}
        THEN /\ last' = [last EXCEPT !.at = @ + 1]
             /\ UNCHANGED comments
        ELSE \E names \in {q \in [1..n -> requested_reviewers] :
                             {q[k] : k \in 1..n} = requested_reviewers} :
               /\ comments' =
                    [comments EXCEPT
                       ![p] = IF args.dry_run THEN @
                              ELSE Append(@,
                                     [user |-> BOT,
                                      body |-> REVIEWERS_REQUESTED \o << "\n(detective) " >>
                                                 \o names
                                                 \o << IF n = 1 THEN "has been requested"
                                                       ELSE "have been requested" >>])]
               /\ last' = [last EXCEPT
                             !.at = @ + 1,
                             !.asked[p] = IF args.dry_run THEN @ ELSE last.review[p]]
  /\ UNCHANGED << runVars, invVars, labelVars, legacyVars >>

\* main: the loop is over and the process ends
ReqReturn ==
  /\ last.pc = "for"
  /\ last.at > Len(pulls)
  /\ last' = [last EXCEPT !.pc = "idle"]
  /\ UNCHANGED << comments, runVars, invVars, labelVars, legacyVars >>

\* An account comments on a pull, or leaves a review comment on its diff.
UserComments(p, u, on_diff) ==
  /\ events < MaxEvents
  /\ events' = events + 1
  /\ IF on_diff
     THEN /\ last' = [last EXCEPT !.review[p] = @ \cup {u}]
          /\ UNCHANGED comments
     ELSE /\ comments' = [comments EXCEPT ![p] = Append(@, [user |-> u, body |-> << "a" >>])]
          /\ UNCHANGED last
  /\ UNCHANGED << gh, fails, base_fails, args, pc, mono, merge_id, HEAD, merging,
                  idx, other, conflicts, run, invVars, labelVars, legacyVars >>

\* The pulls are open; the repository holds one of the REVIEWERS files; the
\* command line sets --dry_run or not.
InitReq ==
  /\ comments = [p \in Pulls |-> << >>]
  /\ gh = OpenMergeable
  /\ \E f \in ReviewersFiles :
       last = [op |-> "req_review", pc |-> "idle", at |-> 0, file |-> f,
               review |-> [p \in Pulls |-> {}], asked |-> [p \in Pulls |-> {}]]
  /\ \E d \in BOOLEAN : InitMain([NoArgs EXCEPT !.dry_run = d])

NextReq ==
  \/ ReqStart
  \/ ReqStep
  \/ ReqReturn
  \/ \E p \in Pulls, u \in Accounts, on_diff \in BOOLEAN : UserComments(p, u, on_diff)
  \/ \E p \in Pulls : ToggleDraft(p)

SpecReq == InitReq /\ [][NextReq]_vars

\* --------------------------------------------------- scripts/gitian.py
\* In this part labels[p] tells if pull p carries 'Needs gitian build'.
ID_GITIAN_COMMENT == << OPEN, "a722", CLOSE >>

\* The forge calls at the end of an iteration, last first.
Bookkeeping_unlabel_first == << "remove_from_labels", "create_comment" >>

\* main, lines 183-185: the forge calls at the end of an iteration
Bookkeeping == << "create_comment", "remove_from_labels" >>

\* main, lines 122-150: the open pulls are listed with their attributes and
\* the mergeable ones are kept; without a labelled pull among them the run
\* ends, else the base branch is built.
GitianStart ==
  /\ last.pc \in {"idle", "done", "failed"}
  /\ last.runs < MaxEvents + 1
  /\ LET listed == [k \in 1..Len(get_pulls) |-> Fetched(PullObject(get_pulls[k]))]
         kept == SelectSeq(listed, LAMBDA o : o.mergeable = "True")
     IN /\ pulls' = kept
        /\ last' = [last EXCEPT
                      !.runs = @ + 1,
                      !.at = 1,
                      !.pc = IF \E k \in 1..Len(kept) : labels[kept[k].number]
                             THEN "for" ELSE "done"]
  /\ UNCHANGED << comments, runVars, ipc, pos, labelVars, legacyVars >>

\* main, lines 151-155: the labels of the next pull are read
GitianLabelCheck ==
  /\ last.pc = "for"
  /\ last.at <= Len(pulls)
  /\ LET p == pulls[last.at].number
     IN last' = IF labels[p]
                THEN [last EXCEPT !.pc = "build", !.checked = @ \cup {p}]
                ELSE [last EXCEPT !.at = @ + 1]
  /\ UNCHANGED << comments, runVars, invVars, labelVars, legacyVars >>

\* main, lines 157-181: the merge commit of the pull is built and the text
\* is made; a dry run prints the calls and goes on with the next pull
GitianBuild ==
  /\ last.pc = "build"
  /\ last' = [last EXCEPT
                !.built = @ \cup {pulls[last.at].number},
                !.pc = IF args.dry_run THEN "for" ELSE "call",
                !.at = IF args.dry_run THEN @ + 1 ELSE @,
                !.call = 1]
  /\ UNCHANGED << comments, runVars, invVars, labelVars, legacyVars >>

\* main, lines 183-185: the next of the two forge calls
GitianCall ==
  /\ last.pc = "call"
  /\ LET p == pulls[last.at].number
         more == last.call < Len(Bookkeeping)
     IN /\ IF Bookkeeping[last.call] = "create_comment"
           THEN /\ comments' = [comments EXCEPT
                                  ![p] = Append(@, [user |-> BOT,
                                                    body |-> ID_GITIAN_COMMENT
                                                               \o << "\n### Gitian builds" >>])]
                /\ UNCHANGED labels
                /\ last' = [last EXCEPT
                              !.call = IF more THEN @ + 1 ELSE @,
                              !.pc = IF more THEN "call" ELSE "for",
                              !.at = IF more THEN @ ELSE @ + 1]
           ELSE /\ labels' = [labels EXCEPT ![p] = FALSE]
                /\ UNCHANGED comments
                /\ last' = [last EXCEPT
                              !.removed = @ \cup {p},
                              !.call = IF more THEN @ + 1 ELSE @,
                              !.pc = IF more THEN "call" ELSE "for",
                              !.at = IF more THEN @ ELSE @ + 1]
  /\ UNCHANGED << runVars, invVars, lpc, lpos, printed, intended, legacyVars >>

\* main: the loop is over and the process ends
GitianDone ==
  /\ last.pc = "for"
  /\ last.at > Len(pulls)
  /\ last' = [last EXCEPT !.pc = "done"]
  /\ UNCHANGED << comments, runVars, invVars, labelVars, legacyVars >>

\* A build (subprocess.check_call) or a forge call raises: nothing catches
\* it and the process ends where it is.
GitianFails ==
  /\ last.pc \in {"for", "build", "call"}
  /\ last' = [last EXCEPT !.pc = "failed"]
  /\ UNCHANGED << comments, runVars, invVars, labelVars, legacyVars >>

\* A maintainer sets or takes off the label of a pull.
SetLabel(p) ==
  /\ labels' = [labels EXCEPT ![p] = ~@]
  /\ UNCHANGED << comments, last, runVars, invVars, lpc, lpos, printed, intended, legacyVars >>

\* No pull is labelled and no thread has a comment; pull 10 is mergeable
\* or not.
InitGitian ==
  /\ comments = [p \in Pulls |-> << >>]
  /\ \E m \in {"True", "False"} :
       gh = [OpenMergeable EXCEPT ![10].mergeable = m]
  /\ last = [op |-> "gitian", pc |-> "idle", runs |-> 0, at |-> 0, call |-> 0,
             checked |-> {}, built |-> {}, removed |-> {}]
  /\ \E d \in BOOLEAN : InitMain([NoArgs EXCEPT !.dry_run = d])

NextGitian ==
  \/ GitianStart
  \/ GitianLabelCheck
  \/ GitianBuild
  \/ GitianCall
  \/ GitianDone
  \/ GitianFails
  \/ \E p \in Pulls : SetLabel(p)

SpecGitian == InitGitian /\ [][NextGitian]_vars

\* ================================================================ claims
\* The Annotation of the synchronized pull: the body of its metadata comment.
AnnotationBody ==
  LET r == get_metadata_sections(comments[SyncPull])
  IN IF r.c = 0 THEN << >> ELSE comments[SyncPull][r.c].body

\* Tokens of a list of conflicting pulls.
ListTokens ==
  {"Reviewers, this pull request conflicts", "\n* [#10](url10) (",
   "\n* [#20](url20) (", "\n* [#30](url30) (", " by u)", "\n\nIf you consider"}

\* C1: when update_comment is called twice in a row with the same non-empty
\* conflict list (no dry run, nothing else touching the thread in between),
\* the second call performs no remote write.
C1_SecondCallWritesNothing ==
  (last.op = "conflicts" /\ last.arg # << >> /\ last.again # "n/a")
    => last.kind = "none"

\* C2: a call of update_comment (which updates the conflicts section) leaves
\* the text of the coverage section, as parsed from the Annotation, what it
\* was before the call.
C2_CoverageSectionKept ==
  (last.op = "conflicts" /\ last.pre_coverage # None)
    => get_section_text(comments[SyncPull], SEC_COVERAGE) = last.pre_coverage

\* C3: update_comment with an empty conflict list, on a thread that has no
\* Annotation or whose Annotation has no conflicts section, performs no
\* remote write: the thread is left as it was.
C3_EmptyResultSuppressed ==
  [][(last'.op = "conflicts" /\ last'.arg = << >> /\ last'.pre_conflicts = None)
       => (last'.kind = "none" /\ comments' = comments)]_vars

\* C3 witness: an empty conflict list has been synchronized, for real, on a
\* thread whose Annotation held a coverage section and no conflicts section.
C3_Witness ==
  /\ last.op = "conflicts"
  /\ last.arg = << >>
  /\ ~last.dry_run
  /\ last.pre_conflicts = None
  /\ last.pre_coverage # None
  /\ last.pre_len = 2

\* C4: when update_comment is called with an empty conflict list on a thread
\* whose Annotation has a conflicts section, the thread keeps its one
\* comment, the conflicts section reads 'no conflicts' and nothing of the
\* former list of conflicting pulls remains in the Annotation.
C4_FlippedToNoConflicts ==
  (last.op = "conflicts" /\ last.arg = << >> /\ ~last.dry_run
     /\ last.pre_conflicts # None)
    => /\ Len(comments[SyncPull]) = last.pre_len
       /\ get_section_text(comments[SyncPull], SEC_CONFLICTS) = NoConflictsText
       /\ \A k \in 1..Len(AnnotationBody) : AnnotationBody[k] \notin ListTokens

\* The mergeable subset S: the open pulls the forge reports as mergeable.
MergeableSubset ==
  {p \in Pulls : gh[p].state = "open" /\ gh[p].mergeable = "True"}

ListSet(l) == {l[k] : k \in 1..Len(l)}

\* C5: the conflict list calc_conflicts returns for a pull c is made of
\* exactly the pulls of S other than c whose head fails to merge onto
\* merge_base(c); lists are computed for pulls of S only.
C5_ConflictMatrix ==
  \A c \in Pulls :
    run.lists[c] # NoList =>
      /\ c \in MergeableSubset
      /\ Len(run.lists[c]) = Cardinality(ListSet(run.lists[c]))
      /\ ListSet(run.lists[c]) =
           {o \in MergeableSubset \ {c} : fails[<< c, o >>] = "yes"}

\* C5 witness: an update-all run is over with a pull outside S, a list that
\* holds a pull and a list that is empty.
C5_Witness ==
  /\ pc = "done"
  /\ args.update_comments
  /\ MergeableSubset # Pulls
  /\ \E c \in MergeableSubset : run.lists[c] \notin {NoList, << >>}
  /\ \E c \in MergeableSubset : run.lists[c] = << >>

\* The end-to-end scenario: a finished update-all run over the mergeable
\* pulls 10, 20 and 30, where 10 and 20 fail to merge onto each other's
\* merge base and every other merge succeeds.
Scenario ==
  /\ pc = "done"
  /\ args.update_comments
  /\ ~args.dry_run
  /\ mono = << 30, 20, 10 >>
  /\ \A q \in Pairs :
       fails[q] = IF q \in {<< 10, 20 >>, << 20, 10 >>} THEN "yes" ELSE "no"

\* C6: in the scenario the lists are [20] for 10, [10] for 20 and [] for
\* 30; the conflicts sections of 10 and 20 list each other; 30 is not
\* written when it had no conflicts section and has the 'no conflicts'
\* section when it had one.
C6_EndToEnd ==
  Scenario =>
    /\ run.lists[10] = << 20 >>
    /\ run.lists[20] = << 10 >>
    /\ run.lists[30] = << >>
    /\ get_section_text(comments[10], SEC_CONFLICTS) = ConflictsText(<< PullRec(20) >>)
    /\ get_section_text(comments[20], SEC_CONFLICTS) = ConflictsText(<< PullRec(10) >>)
    /\ IF run.had[30] = None
       THEN /\ run.writes[30] = "none"
            /\ get_section_text(comments[30], SEC_CONFLICTS) = None
       ELSE get_section_text(comments[30], SEC_CONFLICTS) = NoConflictsText

\* C6 witness: the scenario, with a conflicts section on 30 from an earlier
\* run that this run has edited.
C6_Witness ==
  /\ Scenario
  /\ run.had[30] # None
  /\ run.writes[30] = "edit"
  /\ run.writes[10] # "n/a"

\* C7: when the head of b fails to merge onto merge_base(a) and the head of
\* a merges onto merge_base(b), the lists of a run hold b for a and do not
\* hold a for b; no exception comes out of the pairwise trials.
C7_NoSymmetryEnforced ==
  /\ \A a \in Pulls : \A b \in Pulls \ {a} :
       (/\ run.lists[a] # NoList
        /\ run.lists[b] # NoList
        /\ fails[<< a, b >>] = "yes"
        /\ fails[<< b, a >>] = "no")
         => (b \in ListSet(run.lists[a]) /\ a \notin ListSet(run.lists[b]))
  /\ run.exc \in {"none", "calc_merged", "sys.exit(-1)"}

\* C7 witness: a finished run with such a pair.
C7_Witness ==
  /\ pc = "done"
  /\ \E a \in Pulls : \E b \in Pulls \ {a} :
       /\ run.lists[a] # NoList
       /\ run.lists[b] # NoList
       /\ fails[<< a, b >>] = "yes"
       /\ fails[<< b, a >>] = "no"

\* C8: a failed merge of a pull onto the tip of the target branch does not
\* end the run.
C8_BaseMergeFailureSkipped ==
  ~(pc \in {"raise", "crashed"} /\ run.exc = "calc_merged")

\* C9: when git checkout runs in calc_conflicts no merge is in progress,
\* every pull whose trial merge has failed so far is in the list, and a
\* failed trial merge is followed by git merge --abort, not by the end of
\* the run.
C9_FailedTrialRecovered ==
  /\ pc = "cc_loop" => ~merging
  /\ pc \in {"cc_loop", "cc_merge", "cc_abort"} =>
       \A k \in 1..(other - 1) :
         (k <= Len(mono) /\ mono[k] # pull_check
            /\ fails[<< pull_check, mono[k] >>] = "yes")
           => mono[k] \in ListSet(conflicts)
  /\ merging => (pc = "cc_abort" \/ run.exc = "calc_merged")

\* C9 witness: a trial merge has failed and been aborted, and the next
\* checkout is due.
C9_Witness ==
  /\ pc = "cc_loop"
  /\ conflicts # << >>
  /\ NextOther(mono, pull_check, other) <= Len(mono)

\* C10: the list return_with_pull_metadata returns holds no pull whose
\* mergeable is None.
C10_NoUnknownReturned ==
  ipc = "returned" => \A k \in 1..Len(pulls) : pulls[k].mergeable # "None"

\* Every open pull that is not merged has its tri-state resolved.
Resolved ==
  \A p \in Pulls :
    (gh[p].state = "open" /\ ~gh[p].merged) => gh[p].mergeable # "None"

\* C11: if from some time on the tri-state of every open, non-merged pull
\* is resolved, return_with_pull_metadata eventually returns (also when a
\* pull was merged while its tri-state was unknown).
C11_InventoryTerminates == (<>[]Resolved) => <>(ipc = "returned")

\* C11 witness: the loop has returned with a pull in its list that was
\* merged while its tri-state was still unknown.
C11_Witness ==
  /\ ipc = "returned"
  /\ \E k \in 1..Len(pulls) : pulls[k].merged /\ pulls[k].mergeable = "None"
  /\ \E k \in 1..Len(pulls) : pulls[k].mergeable = "True"

\* The open mergeable pulls of the repos named by --github_repos.
TrackedMergeable ==
  {p \in MergeableSubset :
     \E k \in 1..Len(args.github_repos) : gh[p].slug = args.github_repos[k]}

\* C12: the list handed to calc_merged and calc_conflicts holds every open
\* mergeable pull of every repo of --github_repos, and a finished
\* update-all run has computed a conflict list for each of them.
C12_AllReposPooled ==
  /\ pc # "idle" => ListSet(mono) = TrackedMergeable
  /\ (pc = "done" /\ args.update_comments) =>
       \A p \in TrackedMergeable : run.lists[p] # NoList

\* The comments of a thread that start with the METADATA marker.
Annotations(thread) ==
  {i \in 1..Len(thread) : StartsWith(thread[i].body, METADATA)}

\* C13: after every synchronizer call the thread holds at most one comment
\* that starts with the METADATA marker, and a call adds a comment to the
\* thread only when there was none before it.
C13_OneAnnotation ==
  [][/\ Cardinality(Annotations(comments'[SyncPull])) <= 1
     /\ Len(comments'[SyncPull]) # Len(comments[SyncPull])
          => /\ Annotations(comments[SyncPull]) = {}
             /\ Len(comments'[SyncPull]) = Len(comments[SyncPull]) + 1]_vars

\* C13 witness: the Annotation, the one comment with the marker in a thread
\* of two comments, has just been edited and holds both sections.
C13_Witness ==
  /\ last.kind = "edit"
  /\ ~last.dry_run
  /\ Len(comments[SyncPull]) = 2
  /\ Annotations(comments[SyncPull]) = {2}
  /\ get_section_text(comments[SyncPull], SEC_CONFLICTS) # None
  /\ get_section_text(comments[SyncPull], SEC_COVERAGE) # None

\* The sections of the synchronized pull's Annotation that carry a key.
SectionsWithKey(section_id) ==
  LET sections == get_metadata_sections(comments[SyncPull]).sections
  IN {i \in 1..Len(sections) : StartsWith(sections[i], section_id)}

\* C14: after every synchronizer call each section key occurs at most once
\* in the Annotation.
C14_SectionKeysUnique ==
  \A section_id \in {SEC_CONFLICTS, SEC_COVERAGE} :
    Cardinality(SectionsWithKey(section_id)) <= 1

\* C15: in the Annotation no section comes before a section with a smaller
\* key, whatever the order in which the sections were first added.
C15_CanonicalOrder ==
  LET sections == get_metadata_sections(comments[SyncPull]).sections
  IN \A i \in 1..Len(sections) : \A j \in (i + 1)..Len(sections) :
       \A ki \in {SEC_CONFLICTS, SEC_COVERAGE} :
         \A kj \in {SEC_CONFLICTS, SEC_COVERAGE} :
           (StartsWith(sections[i], ki) /\ StartsWith(sections[j], kj))
             => ~StrLess(kj, ki)

\* C15 witness: the conflicts section has just been added to an Annotation
\* that held the coverage section only, and it stands first.
C15_Witness ==
  /\ last.op = "conflicts"
  /\ last.kind = "edit"
  /\ ~last.dry_run
  /\ last.pre_conflicts = None
  /\ last.pre_coverage # None
  /\ SectionsWithKey(SEC_CONFLICTS) = {1}
  /\ SectionsWithKey(SEC_COVERAGE) # {}

\* C16: with --dry_run no step of a label_rebase run changes a label or a
\* comment, and the writes a run prints are the writes of its `if not
\* args.dry_run` blocks, the ones a run without --dry_run makes.
C16_DryRunPrintsIntendedWrites ==
  [][args.dry_run => /\ labels' = labels
                     /\ comments' = comments
                     /\ printed' = intended']_vars

\* C17: in a run whose --pull_id is not among the open mergeable pulls of
\* the listed repos, no conflict list is computed and no update_comment
\* call is made for that pull, and the run does not end with exit status
\* 0: it ends in sys.exit(-1) (or earlier, in an exception).
C17_LookupError ==
  (pc # "idle" /\ args.pull_id # 0 /\ args.pull_id \notin TrackedMergeable)
    => /\ run.lists[args.pull_id] = NoList
       /\ run.writes[args.pull_id] = "n/a"
       /\ pc # "done"
       /\ pc = "exit" => run.exc = "sys.exit(-1)"

\* C17 witness: a run for an open pull that is not mergeable has ended in
\* sys.exit(-1) after its update-all part computed the lists of the others.
C17_Witness ==
  /\ pc = "exit"
  /\ args.pull_id # 0
  /\ gh[args.pull_id].state = "open"
  /\ gh[args.pull_id].mergeable = "False"
  /\ \E q \in Pulls : run.lists[q] \notin {NoList, << >>}

\* The thread of a pull as one update_comment call with this list leaves it.
OneCall(thread, list) ==
  ApplyWrite(thread,
             update_comment(thread, [k \in 1..Len(list) |-> PullRec(list[k])]),
             FALSE)

\* C18: a failed forge call ends the run: the pulls before it keep what
\* the run wrote and the pulls after it are not written.  When the run
\* after it completes, the thread of every pull is what one uninterrupted
\* run would have left, and the pulls the failed run had brought up to
\* date are not written again.
C18_IdempotentOnRetry ==
  /\ (pc = "crashed" /\ run.exc = "forge" /\ run.retry_of = NoRetry) =>
       \A p \in Pulls :
         /\ run.writes[p] = "n/a" => comments[p] = run.start[p]
         /\ run.writes[p] \in {"none", "edit", "create"} =>
              comments[p] = OneCall(run.start[p], run.lists[p])
  /\ (pc = "done" /\ run.retry_of # NoRetry) =>
       \A p \in Pulls :
         /\ comments[p] = OneCall(run.start[p], run.lists[p])
         /\ run.retry_of[p] \in {"none", "edit", "create"} =>
              run.writes[p] = "none"

\* C19: a run of conflicts.py that starts on a scratch tree with a change that
\* is not committed (staged or not) has fetched no pull head, made no trial
\* merge and written no comment, wherever it stands.
C19_DirtyTreeAborts ==
  legacy.dirty =>
    /\ ~legacy.fetched
    /\ legacy.merges = 0
    /\ legacy.writes = 0

\* C20: when the second of two runs finds the same set of pulls in conflict
\* as the first, with the same titles, it writes nothing, in whichever order
\* the pulls were listed.
C20_ReportOfTheSet ==
  (/\ last.op = "second run"
   /\ {last.arg[k] : k \in 1..Len(last.arg)}
        = {last.first[k] : k \in 1..Len(last.first)})
    => last.kind = "none"

\* C21: the sections parsed from a comment that get_metadata_comment built
\* are the sections it was built from, sorted, each with the text it had.
C21_RoundTrip == last.op = "parsed" => last.out = sorted(last.arg)

\* C22: when a trial merge is attempted in calc_conflicts for the pull c, the
\* checked-out commit is merge_base(c), the tip of the target branch with the
\* head of c and of no other pull merged in, and no merge is in progress.
C22_TrialStartsFromMergeBase ==
  pc = "cc_merge" => (HEAD = {pull_check} /\ ~merging)

\* C22 witness: a trial merge is due after a trial of the same call that
\* succeeded, in a run in which a trial of an earlier call failed.
C22_Witness ==
  /\ pc = "cc_merge"
  /\ \E k \in 1..(other - 1) :
       mono[k] # pull_check /\ fails[<< pull_check, mono[k] >>] = "no"
  /\ \E c \in Pulls : run.lists[c] \notin {NoList, << >>}

\* C23: a targeted run (--pull_id X) that starts on the threads the update-all
\* run started on, with the repository unchanged, returns for X the list the
\* update-all run returned for X, decides on the same remote call, and (when
\* it is not a dry run) leaves the thread of X as the update-all run's call
\* for X leaves it.
C23_TargetedAgrees ==
  (/\ pc = "done"
   /\ last.op = "full run"
   /\ run.start = last.start)
    => LET X == args.pull_id
       IN /\ run.lists[X] = last.lists[X]
          /\ run.writes[X] = last.writes[X]
          /\ ~args.dry_run => comments[X] = OneCall(last.start[X], last.lists[X])

\* C23 witness: a targeted run has written the section of X, with a pull in
\* it, that the update-all run before it (a dry run) had computed; another
\* pull is not in the list.
C23_Witness ==
  /\ pc = "done"
  /\ last.op = "full run"
  /\ run.start = last.start
  /\ ~args.dry_run
  /\ run.writes[args.pull_id] \in {"create", "edit"}
  /\ Len(run.lists[args.pull_id]) = 1

\* C24: no step of a run touches an open pull that the forge reports as not
\* mergeable: the pull is not in the list the merges are made from, no list
\* is computed for it, no remote call is made for it and its thread, with the
\* conflicts section it may hold, stays what it was.
C24_NonMergeableUntouched ==
  [][\A p \in Pulls :
       (/\ gh[p].state = "open"
        /\ gh[p].mergeable # "True"
        /\ gh'[p] = gh[p])
         => /\ comments'[p] = comments[p]
            /\ \A k \in 1..Len(mono') : mono'[k] # p
            /\ run'.lists[p] = NoList
            /\ run'.writes[p] = "n/a"]_vars

\* C24 witness: an update-all run that writes is over, with lists for other
\* pulls, and a pull that no longer merges still carries the conflicts
\* section of a run before it.
C24_Witness ==
  /\ pc = "done"
  /\ args.update_comments
  /\ ~args.dry_run
  /\ \E p \in Pulls :
       /\ gh[p].state = "open"
       /\ gh[p].mergeable = "False"
       /\ get_section_text(comments[p], SEC_CONFLICTS) # None
       /\ \E q \in Pulls \ {p} : run.lists[q] # NoList

\* C25: when both processes have read the thread before either wrote and
\* both have written, then (a) if the thread held no Annotation it now holds
\* two, and (b) if both edited the Annotation, the section of the process
\* that wrote first is what it was before the two calls (or absent as it
\* was), not what that process wrote.
C25_LostUpdate ==
  (/\ last.call["conflicts"].pc = "done"
   /\ last.call["coverage"].pc = "done"
   /\ last.call["conflicts"].saw = 0
   /\ last.call["coverage"].saw = 0)
    => LET now == comments[SyncPull]
           first == last.order[1]
           key == IF first = "conflicts" THEN SEC_CONFLICTS ELSE SEC_COVERAGE
           written == IF first = "conflicts"
                      THEN ConflictsText(last.call[first].arg)
                      ELSE last.call[first].arg
       IN /\ Annotations(last.pre) = {} => Cardinality(Annotations(now)) = 2
          /\ (/\ last.call["conflicts"].w.kind = "edit"
              /\ last.call["coverage"].w.kind = "edit")
               => /\ get_section_text(now, key) = get_section_text(last.pre, key)
                  /\ get_section_text(now, key) # written

\* C25 witness: both processes read an Annotation that held both sections,
\* then both edited it.
C25_Witness ==
  /\ last.call["conflicts"].pc = "done"
  /\ last.call["coverage"].pc = "done"
  /\ last.call["conflicts"].saw = 0
  /\ last.call["coverage"].saw = 0
  /\ last.call["conflicts"].w.kind = "edit"
  /\ last.call["coverage"].w.kind = "edit"
  /\ get_section_text(last.pre, SEC_CONFLICTS) # None

\* C26: with a comment of another account that starts with the marker at the
\* head of the thread, a call of the scripts/util synchronizer never creates
\* a comment and what it edits is that comment; update_comment of the older
\* conflicts.py leaves that comment alone, creates a comment of the bot
\* when the thread holds none and edits only a comment of the bot.
C26_ForeignAnnotation ==
  LET thread == comments[SyncPull]
  IN /\ thread[1].user = "u"
     /\ last.created \subseteq {"legacy"}
     /\ last.op \in {"conflicts", "coverage"} =>
          (last.w.kind = "edit" => last.w.c = 1)
     /\ last.op = "legacy" =>
          /\ last.w.kind \in {"create", "edit"}
          /\ last.w.kind = "edit" => thread[last.w.c].user = BOT
          /\ "legacy" \in last.created
     /\ \A i \in 2..Len(thread) :
          /\ thread[i].user = BOT
          /\ StartsWith(thread[i].body, ID_CONFLICTS_COMMENT)
          /\ thread[i].body \in
               {OldText(<< [num |-> 20, title |-> t] >>) : t \in PlainTitles}

\* C26 witness: the new synchronizer has edited the comment of the other
\* account in a thread where the older script had created its own.
C26_Witness ==
  /\ last.op = "conflicts"
  /\ last.w.kind = "edit"
  /\ last.w.c = 1
  /\ comments[SyncPull][1].user = "u"
  /\ "legacy" \in last.created

\* The objects of the list hold what the forge holds.
LabelAgree ==
  \A k \in 1..Len(pulls) :
    /\ pulls[k].mergeable = gh[pulls[k].number].mergeable
    /\ pulls[k].draft = gh[pulls[k].number].draft

\* Every listed pull that is not a draft is labelled exactly when it does
\* not merge.
LabelConsistent ==
  \A k \in 1..Len(pulls) :
    ~pulls[k].draft => (labels[pulls[k].number] <=> pulls[k].mergeable # "True")

\* C27: for a run without --dry_run: (a) when the loop is over and the forge
\* holds what the run listed, every listed non-draft pull is labelled
\* exactly when it does not merge; (b) no step changes the label or the
\* thread of a pull listed as a draft; (c) a step of a run that found the
\* forge in such a state writes nothing.
C27_LabelFixedPoint ==
  [][~args.dry_run =>
       /\ (lpc = "for" /\ lpos > Len(pulls) /\ LabelAgree) => LabelConsistent
       /\ lpc = "for" =>
            \A k \in 1..Len(pulls) :
              pulls[k].draft =>
                /\ labels'[pulls[k].number] = labels[pulls[k].number]
                /\ comments'[pulls[k].number] = comments[pulls[k].number]
       /\ (lpc = "for" /\ LabelAgree /\ LabelConsistent) =>
            /\ labels' = labels
            /\ comments' = comments
            /\ intended' = intended]_vars

\* C27 witness: a run without --dry_run is over and has written nothing, on
\* a forge where a run before it had labelled a pull and where another pull
\* is a draft that does not merge and has no label.
C27_Witness ==
  /\ ~args.dry_run
  /\ lpc = "for"
  /\ lpos > Len(pulls)
  /\ LabelAgree
  /\ intended = << >>
  /\ \E k \in 1..Len(pulls) : labels[pulls[k].number]
  /\ \E k \in 1..Len(pulls) :
       /\ pulls[k].draft
       /\ pulls[k].mergeable = "False"
       /\ ~labels[pulls[k].number]

\* C28: the thread of every pull holds one comment that starts with the
\* NEEDS_REBASE marker when the pull carries the label and none when it does
\* not.
C28_LabelAndNotice ==
  \A p \in Pulls :
    Cardinality(needs_rebase_comments(comments[p])) = IF labels[p] THEN 1 ELSE 0

\* C28 witness: a run without --dry_run has just removed the label and the
\* notice of one pull while another pull, now a draft, keeps its label and
\* its notice.
C28_Witness ==
  /\ ~args.dry_run
  /\ lpc = "for"
  /\ \E k \in 1..Len(intended) : intended[k].op = "delete" /\ intended[k].n = 1
  /\ \E p \in Pulls :
       /\ labels[p]
       /\ gh[p].draft
       /\ Cardinality(needs_rebase_comments(comments[p])) = 1

\* C29: the thread of a pull holds at most one comment that starts with the
\* REVIEWERS_REQUESTED marker, and the names in it are not the name of the
\* author, of an account with a comment before it in the thread, or of an
\* account that had left a review comment when it was written.
C29_AskedOnce ==
  \A p \in Pulls :
    LET thread == comments[p]
        asks == {i \in 1..Len(thread) : StartsWith(thread[i].body, REVIEWERS_REQUESTED)}
    IN /\ Cardinality(asks) <= 1
       /\ \A i \in asks :
            \A d \in {PullAuthor[p]} \cup {thread[j].user : j \in 1..(i - 1)}
                       \cup last.asked[p] :
              \A k \in 1..Len(thread[i].body) : thread[i].body[k] # At(d)

\* C29 witness: a run goes over a pull again that carries the request of a
\* run before it, written when one of the owners of its files had left a
\* review comment, and another owner is named.
C29_Witness ==
  \E p \in Pulls :
    /\ last.pc = "for"
    /\ last.at <= Len(pulls)
    /\ pulls[last.at].number = p
    /\ \E i \in 1..Len(comments[p]) :
         /\ StartsWith(comments[p][i].body, REVIEWERS_REQUESTED)
         /\ \E k \in 1..Len(comments[p][i].body) :
              comments[p][i].body[k] \in {At(a) : a \in Accounts}
    /\ \E d \in last.asked[p] :
         At(d) \in reviewers_for_files(last.file, PullFiles[p])

\* C30: in every state of a run, also of one cut short, a pull whose label
\* the bot removed has a result comment in its thread; a pull is built only
\* when its labels were read with 'Needs gitian build' among them and the
\* listing kept it as mergeable, and a result comment is on built pulls only.
C30_CommentBeforeUnlabel ==
  /\ \A p \in last.removed :
       \E i \in 1..Len(comments[p]) :
         comments[p][i].user = BOT /\ StartsWith(comments[p][i].body, ID_GITIAN_COMMENT)
  /\ \A p \in last.built : p \in last.checked /\ gh[p].mergeable = "True"
  /\ \A p \in Pulls :
       (\E i \in 1..Len(comments[p]) : StartsWith(comments[p][i].body, ID_GITIAN_COMMENT))
         => p \in last.built

\* C30 witness: a run ended by a failure after it had created the result
\* comment of a labelled pull and before it removed the label, while the
\* label of another pull is removed.
C30_Witness ==
  /\ last.op = "gitian"
  /\ last.pc = "failed"
  /\ last.removed # {}
  /\ \E p \in Pulls :
       /\ labels[p]
       /\ p \notin last.removed
       /\ Len(comments[p]) > 0

====
